---------------------------- MODULE Spec2Model ----------------------------
(***************************************************************************)
(* SecureFinance: the client-side encryption / key-management protocol,   *)
(* the session and transaction hooks, and the server's transaction and    *)
(* anomaly stores.                                                         *)
(*                                                                         *)
(* JavaScript strings are sequences of UTF-16 code units (integers),      *)
(* ArrayBuffers are sequences of bytes (0..255).  A call that may throw   *)
(* returns [ok |-> FALSE] or [ok |-> TRUE, val |-> v].                     *)
(***************************************************************************)
EXTENDS Integers, Sequences, FiniteSets, TLC

Fail == [ok |-> FALSE]
Ok(v) == [ok |-> TRUE, val |-> v]

(***************************************************************************)
(* Codec: TextEncoder / TextDecoder (UTF-8) and btoa / atob (Base64), as   *)
(* used by str2ab, ab2str, ab2base64 and base642ab of utils/encryption.ts. *)
(***************************************************************************)
IsHighSurrogate(c) == c >= 55296 /\ c <= 56319
IsLowSurrogate(c) == c >= 56320 /\ c <= 57343

\* The UTF-8 bytes of one code point.
Utf8Bytes(cp) ==
  IF cp < 128 THEN <<cp>>
  ELSE IF cp < 2048 THEN <<192 + (cp \div 64), 128 + (cp % 64)>>
  ELSE IF cp < 65536
    THEN <<224 + (cp \div 4096), 128 + ((cp \div 64) % 64), 128 + (cp % 64)>>
  ELSE <<240 + (cp \div 262144), 128 + ((cp \div 4096) % 64),
         128 + ((cp \div 64) % 64), 128 + (cp % 64)>>

RECURSIVE Flatten(_, _, _)
\* parts[lo] \o ... \o parts[hi]
Flatten(parts, lo, hi) ==
  IF lo > hi THEN <<>>
  ELSE IF lo = hi THEN parts[lo]
  ELSE Flatten(parts, lo, (lo + hi) \div 2) \o Flatten(parts, (lo + hi) \div 2 + 1, hi)

\* TextEncoder.encode: a surrogate pair is one code point (its bytes are
\* written at the high surrogate, the low one adds nothing), an unpaired
\* surrogate is replaced by U+FFFD (65533).  A high surrogate is never the
\* second half of a pair, so a low surrogate is paired exactly when a high
\* one precedes it.
Utf8Encode(s) ==
  LET bytes(i) ==
        IF IsHighSurrogate(s[i])
          THEN (IF i < Len(s) /\ IsLowSurrogate(s[i + 1])
                  THEN Utf8Bytes(65536 + (s[i] - 55296) * 1024 + (s[i + 1] - 56320))
                  ELSE Utf8Bytes(65533))
        ELSE IF IsLowSurrogate(s[i])
          THEN (IF i > 1 /\ IsHighSurrogate(s[i - 1]) THEN <<>> ELSE Utf8Bytes(65533))
        ELSE Utf8Bytes(s[i])
  IN Flatten([i \in 1..Len(s) |-> bytes(i)], 1, Len(s))

\* function str2ab(str): new TextEncoder().encode(str)
str2ab(str) == Utf8Encode(str)

IsCont(b, i) == i <= Len(b) /\ b[i] >= 128 /\ b[i] <= 191

\* The UTF-16 code units of one code point.
CodeUnits(cp) ==
  IF cp < 65536 THEN <<cp>>
  ELSE <<55296 + ((cp - 65536) \div 1024), 56320 + ((cp - 65536) % 1024)>>

\* The bytes a lead byte asks for after itself (0 for any other byte), and
\* whether byte c may be the first of them.
Utf8Needed(lead) ==
  IF lead >= 194 /\ lead <= 223 THEN 1
  ELSE IF lead >= 224 /\ lead <= 239 THEN 2
  ELSE IF lead >= 240 /\ lead <= 244 THEN 3 ELSE 0

Utf8Second(lead, c) ==
  /\ c >= (IF lead = 224 THEN 160 ELSE IF lead = 240 THEN 144 ELSE 128)
  /\ c <= (IF lead = 237 THEN 159 ELSE IF lead = 244 THEN 143 ELSE 191)

\* How many of the bytes after the lead byte at i the decoder accepts.
Utf8Accepted(b, i) ==
  IF Utf8Needed(b[i]) = 0 \/ i + 1 > Len(b) \/ ~Utf8Second(b[i], b[i + 1]) THEN 0
  ELSE IF Utf8Needed(b[i]) = 1 \/ ~IsCont(b, i + 2) THEN 1
  ELSE IF Utf8Needed(b[i]) = 2 \/ ~IsCont(b, i + 3) THEN 2
  ELSE 3

\* The UTF-8 decoder (not fatal) on the bytes from first on.  A lead byte
\* with all the bytes it asks for gives its code point; a lead byte cut
\* short gives one U+FFFD for itself and the bytes accepted so far; any
\* other byte outside ASCII gives U+FFFD.  A lead byte is never accepted
\* as a continuation, so byte i is swallowed exactly when a lead byte up to
\* three places before it accepted that many bytes.
Utf8Decode(b, first) ==
  LET swallowed(i) ==
        \E k \in 1..3 : i - k >= first /\ Utf8Accepted(b, i - k) >= k
      units(i) ==
        IF swallowed(i) THEN <<>>
        ELSE IF b[i] < 128 THEN <<b[i]>>
        ELSE IF Utf8Needed(b[i]) = 0 \/ Utf8Accepted(b, i) < Utf8Needed(b[i])
          THEN <<65533>>
        ELSE IF Utf8Needed(b[i]) = 1
          THEN CodeUnits((b[i] - 192) * 64 + (b[i + 1] - 128))
        ELSE IF Utf8Needed(b[i]) = 2
          THEN CodeUnits((b[i] - 224) * 4096 + (b[i + 1] - 128) * 64 + (b[i + 2] - 128))
        ELSE CodeUnits((b[i] - 240) * 262144 + (b[i + 1] - 128) * 4096
                         + (b[i + 2] - 128) * 64 + (b[i + 3] - 128))
      parts == [i \in 1..Len(b) |-> IF i < first THEN <<>> ELSE units(i)]
  IN Flatten(parts, 1, Len(b))

\* function ab2str(buffer): new TextDecoder().decode(buffer).  The decoder
\* is built with its defaults (ignoreBOM false), so a leading byte order
\* mark EF BB BF is consumed and not part of the result.
ab2str(buffer) ==
  Utf8Decode(buffer,
             IF Len(buffer) >= 3 /\ buffer[1] = 239 /\ buffer[2] = 187
                /\ buffer[3] = 191 THEN 4 ELSE 1)

\* The Base64 alphabet: value 0..63 to character, character to value (-1 for
\* a character outside the alphabet).
B64Char(v) ==
  IF v < 26 THEN 65 + v
  ELSE IF v < 52 THEN 97 + (v - 26)
  ELSE IF v < 62 THEN 48 + (v - 52)
  ELSE IF v = 62 THEN 43 ELSE 47

B64Value(c) ==
  IF c >= 65 /\ c <= 90 THEN c - 65
  ELSE IF c >= 97 /\ c <= 122 THEN c - 97 + 26
  ELSE IF c >= 48 /\ c <= 57 THEN c - 48 + 52
  ELSE IF c = 43 THEN 62
  ELSE IF c = 47 THEN 63 ELSE -1

\* btoa: three bytes give four characters; a tail of one or two bytes is
\* filled with zero bits and the group padded with "=" (61).
B64Encode(b) ==
  LET byte(i) == IF i <= Len(b) THEN b[i] ELSE 0
      char(j) ==
        LET i == 3 * ((j - 1) \div 4) + 1
            k == (j - 1) % 4
        IN IF k = 0 THEN B64Char(byte(i) \div 4)
           ELSE IF k = 1 THEN B64Char((byte(i) % 4) * 16 + (byte(i + 1) \div 16))
           ELSE IF k = 2
             THEN (IF i + 1 > Len(b) THEN 61
                   ELSE B64Char((byte(i + 1) % 16) * 4 + (byte(i + 2) \div 64)))
           ELSE (IF i + 2 > Len(b) THEN 61 ELSE B64Char(byte(i + 2) % 64))
  IN [j \in 1..(4 * ((Len(b) + 2) \div 3)) |-> char(j)]

\* function ab2base64(buffer): btoa(String.fromCharCode(...bytes))
ab2base64(buffer) == B64Encode(buffer)

IsAsciiWhitespace(c) == c \in {9, 10, 12, 13, 32}

RemoveWhitespace(s) == SelectSeq(s, LAMBDA c : ~IsAsciiWhitespace(c))

\* atob removes one or two trailing "=" when the length is a multiple of 4.
StripPadding(s) ==
  IF Len(s) % 4 # 0 \/ Len(s) = 0 THEN s
  ELSE IF s[Len(s)] # 61 THEN s
  ELSE IF s[Len(s) - 1] = 61 THEN SubSeq(s, 1, Len(s) - 2)
  ELSE SubSeq(s, 1, Len(s) - 1)

\* The bytes of the characters of s: every four characters give three
\* bytes, a tail of two characters (12 bits) gives one and a tail of three
\* (18 bits) gives two; the last four (two) bits of such a tail are
\* discarded, whatever they are.
B64Decode(s) ==
  LET v(j) == B64Value(s[j])
      byte(n) ==
        LET j == 4 * ((n - 1) \div 3) + 1
            k == (n - 1) % 3
        IN IF k = 0 THEN v(j) * 4 + (v(j + 1) \div 16)
           ELSE IF k = 1 THEN (v(j + 1) % 16) * 16 + (v(j + 2) \div 4)
           ELSE (v(j + 2) % 4) * 64 + v(j + 3)
  IN [n \in 1..((Len(s) * 3) \div 4) |-> byte(n)]

\* The decoding of the characters that are left of the argument of atob.
Forgiving(s) ==
  IF Len(s) % 4 = 1 \/ \E i \in 1..Len(s) : B64Value(s[i]) = -1
    THEN Fail
    ELSE Ok(B64Decode(s))

\* atob (forgiving-base64 decode): fails on a length of 4n+1 and on any
\* character outside the alphabet.
atob(data) == Forgiving(StripPadding(RemoveWhitespace(data)))

\* function base642ab(base64): the bytes of atob(base64); throws when atob
\* does.
base642ab(base64) == atob(base64)

(***************************************************************************)
(* Web Crypto primitives.  PBKDF2 and AES-GCM are library code; the model  *)
(* gives them the properties of the ideal primitives: a CryptoKey is an    *)
(* opaque handle determined by exactly the key material and the salt it    *)
(* was derived from, the ciphertext body is the plaintext masked by a      *)
(* keystream of (key, iv), and the authentication tag is a function of     *)
(* (key, iv, body) without collisions.  The tag's bytes spell out its      *)
(* arguments; they stand for the 128-bit tag and carry no other meaning.   *)
(***************************************************************************)
SALT_LENGTH == 16
IV_LENGTH == 12

RECURSIVE SumBytes(_)
SumBytes(b) == IF b = <<>> THEN 0 ELSE Head(b) + SumBytes(Tail(b))

\* export async function deriveKey(password, salt): importKey over
\* str2ab(password), then PBKDF2 with the salt.
deriveKey(password, salt) == [material |-> str2ab(password), salt |-> salt]

KeyStream(key, iv, i) ==
  (SumBytes(key.material) + 3 * SumBytes(key.salt) + 5 * SumBytes(iv) + 7 * i + 1) % 256

GcmTag(key, iv, body) == key.material \o key.salt \o iv \o body

\* crypto.subtle.encrypt({name: 'AES-GCM', iv}, key, plaintext): body, then tag.
AesGcmSeal(key, iv, body) == body \o GcmTag(key, iv, body)

AesGcmEncrypt(key, iv, plaintext) ==
  AesGcmSeal(key, iv, [i \in 1..Len(plaintext) |->
                         (plaintext[i] + KeyStream(key, iv, i)) % 256])

\* crypto.subtle.decrypt: rejects (OperationError) unless the tag verifies.
\* n is the length of the body.
AesGcmOpen(key, iv, ciphertext, n) ==
  IF n < 0 \/ Len(ciphertext) # Len(GcmTag(key, iv, <<>>)) + 2 * n THEN Fail
  ELSE IF SubSeq(ciphertext, n + 1, Len(ciphertext))
            # GcmTag(key, iv, SubSeq(ciphertext, 1, n)) THEN Fail
  ELSE Ok([i \in 1..n |-> (ciphertext[i] + 256 - KeyStream(key, iv, i)) % 256])

AesGcmDecrypt(key, iv, ciphertext) ==
  AesGcmOpen(key, iv, ciphertext,
             (Len(ciphertext) - Len(GcmTag(key, iv, <<>>))) \div 2)

\* export async function encryptData(data, key).  iv is the value that
\* crypto.getRandomValues(new Uint8Array(IV_LENGTH)) returns in this call.
encryptData(data, key, iv) ==
  [encryptedData |-> ab2base64(AesGcmEncrypt(key, iv, str2ab(data))),
   iv |-> ab2base64(iv)]

\* decryptData on the decoded bytes, with a cipher that does not
\* authenticate: whatever the bytes are, a plaintext comes back.
Decrypted_unauthenticated(eb, ib, key) ==
  IF ~eb.ok \/ ~ib.ok THEN Fail
  ELSE Ok(ab2str([i \in 1..((Len(eb.val) - Len(GcmTag(key, ib.val, <<>>))) \div 2) |->
                    (eb.val[i] + 256 - KeyStream(key, ib.val, i)) % 256]))

\* The plaintext of crypto.subtle.decrypt as text, when it did not throw.
Decoded(d) == IF d.ok THEN Ok(ab2str(d.val)) ELSE Fail

\* decryptData on the decoded bytes of its two Base64 arguments.
Decrypted(eb, ib, key) ==
  IF ~eb.ok \/ ~ib.ok THEN Fail
  ELSE Decoded(AesGcmDecrypt(key, ib.val, eb.val))

\* export async function decryptData(encryptedData, iv, key)
decryptData(encryptedData, iv, key) ==
  Decrypted(base642ab(encryptedData), base642ab(iv), key)

(***************************************************************************)
(* JSON.  A JavaScript object is the sequence of its own properties in     *)
(* insertion order, each <<name, value>>; a value is a number or a string. *)
(* Amounts are whole numbers here.                                         *)
(***************************************************************************)
Num(n) == [t |-> "num", v |-> n]
Str(s) == [t |-> "str", v |-> s]
Undefined == [t |-> "undefined"]

RECURSIVE NumToString(_)
\* Number.prototype.toString of a whole number >= 0
NumToString(n) ==
  IF n < 10 THEN <<48 + n>> ELSE NumToString(n \div 10) \o <<48 + (n % 10)>>

HexDigit(d) == IF d < 10 THEN 48 + d ELSE 97 + (d - 10)

\* \uXXXX
UnicodeEscape(c) ==
  <<92, 117, HexDigit(c \div 4096), HexDigit((c \div 256) % 16),
    HexDigit((c \div 16) % 16), HexDigit(c % 16)>>

\* QuoteJSONString: the quote and the backslash are escaped, control
\* characters and unpaired surrogates become \uXXXX, a surrogate pair is
\* copied.
QuoteFrom(s) ==
  LET quoted(i) ==
        IF s[i] = 34 THEN <<92, 34>>
        ELSE IF s[i] = 92 THEN <<92, 92>>
        ELSE IF s[i] = 8 THEN <<92, 98>>
        ELSE IF s[i] = 9 THEN <<92, 116>>
        ELSE IF s[i] = 10 THEN <<92, 110>>
        ELSE IF s[i] = 12 THEN <<92, 102>>
        ELSE IF s[i] = 13 THEN <<92, 114>>
        ELSE IF s[i] < 32 THEN UnicodeEscape(s[i])
        ELSE IF IsHighSurrogate(s[i])
          THEN (IF i < Len(s) /\ IsLowSurrogate(s[i + 1]) THEN <<s[i]>>
                ELSE UnicodeEscape(s[i]))
        ELSE IF IsLowSurrogate(s[i])
          THEN (IF i > 1 /\ IsHighSurrogate(s[i - 1]) THEN <<s[i]>>
                ELSE UnicodeEscape(s[i]))
        ELSE <<s[i]>>
  IN Flatten([i \in 1..Len(s) |-> quoted(i)], 1, Len(s))

JsonQuote(s) == <<34>> \o QuoteFrom(s) \o <<34>>

JsonValue(v) == IF v.t = "num" THEN NumToString(v.v) ELSE JsonQuote(v.v)

RECURSIVE JsonMembers(_, _)
JsonMembers(obj, i) ==
  IF i > Len(obj) THEN <<>>
  ELSE (IF i > 1 THEN <<44>> ELSE <<>>)
         \o JsonQuote(obj[i][1]) \o <<58>> \o JsonValue(obj[i][2])
         \o JsonMembers(obj, i + 1)

\* JSON.stringify of an object
JsonStringify(obj) == <<123>> \o JsonMembers(obj, 1) \o <<125>>

HexValue(c) ==
  IF c >= 48 /\ c <= 57 THEN c - 48
  ELSE IF c >= 97 /\ c <= 102 THEN c - 97 + 10
  ELSE IF c >= 65 /\ c <= 70 THEN c - 65 + 10 ELSE -1

\* The character of a JSON string that starts at i, and the code units
\* it takes: itself, or an escape.  Control characters must be escaped.
ParseChar(s, i) ==
  LET simple == [c \in {34, 92, 47} |-> c] @@ (98 :> 8) @@ (116 :> 9) @@ (110 :> 10)
                  @@ (102 :> 12) @@ (114 :> 13)
  IN IF s[i] < 32 THEN Fail
     ELSE IF s[i] # 92 THEN [ok |-> TRUE, val |-> s[i], len |-> 1]
     ELSE IF i + 1 > Len(s) THEN Fail
     ELSE IF s[i + 1] \in DOMAIN simple
       THEN [ok |-> TRUE, val |-> simple[s[i + 1]], len |-> 2]
     ELSE IF s[i + 1] = 117 /\ i + 5 <= Len(s)
             /\ \A k \in 2..5 : HexValue(s[i + k]) # -1
       THEN [ok |-> TRUE, len |-> 6,
             val |-> HexValue(s[i + 2]) * 4096 + HexValue(s[i + 3]) * 256
                       + HexValue(s[i + 4]) * 16 + HexValue(s[i + 5])]
     ELSE Fail

RECURSIVE ParseChars(_, _, _)
\* After the character c that starts at i.
ParseCharsNext(s, i, acc, c) ==
  IF ~c.ok THEN Fail ELSE ParseChars(s, i + c.len, Append(acc, c.val))

\* The characters of a JSON string whose opening quote is before i, up to
\* its closing quote: [ok, val, next].
ParseChars(s, i, acc) ==
  IF i > Len(s) THEN Fail
  ELSE IF s[i] = 34 THEN [ok |-> TRUE, val |-> acc, next |-> i + 1]
  ELSE ParseCharsNext(s, i, acc, ParseChar(s, i))

ParseString(s, i) ==
  IF i > Len(s) \/ s[i] # 34 THEN Fail ELSE ParseChars(s, i + 1, <<>>)

IsDigit(c) == c >= 48 /\ c <= 57

RECURSIVE ParseDigits(_, _, _)
ParseDigits(s, i, acc) ==
  IF i <= Len(s) /\ IsDigit(s[i])
    THEN ParseDigits(s, i + 1, acc * 10 + (s[i] - 48))
    ELSE [ok |-> TRUE, val |-> acc, next |-> i]

\* A whole number: 0, or digits without a leading zero.
ParseNumber(s, i) ==
  IF i > Len(s) \/ ~IsDigit(s[i]) THEN Fail
  ELSE IF s[i] = 48 THEN [ok |-> TRUE, val |-> 0, next |-> i + 1]
  ELSE ParseDigits(s, i, 0)

\* The parsed r as a value of type t.
Parsed(r, t) ==
  IF r.ok THEN [ok |-> TRUE, val |-> [t |-> t, v |-> r.val], next |-> r.next]
  ELSE Fail

ParseValue(s, i) ==
  IF i <= Len(s) /\ s[i] = 34 THEN Parsed(ParseString(s, i), "str")
  ELSE Parsed(ParseNumber(s, i), "num")

RECURSIVE ParseMembers(_, _, _)
\* After the member of name k and value v.
ParseMembersNext(s, acc, k, v) ==
  IF ~v.ok \/ v.next > Len(s) THEN Fail
  ELSE IF s[v.next] = 125
    THEN [ok |-> TRUE, val |-> Append(acc, <<k.val, v.val>>), next |-> v.next + 1]
  ELSE IF s[v.next] = 44
    THEN ParseMembers(s, v.next + 1, Append(acc, <<k.val, v.val>>))
  ELSE Fail

\* After the name k of a member.
ParseMember(s, acc, k) ==
  IF ~k.ok \/ k.next > Len(s) \/ s[k.next] # 58 THEN Fail
  ELSE ParseMembersNext(s, acc, k, ParseValue(s, k.next + 1))

\* The members of an object from i on, up to its closing brace.
ParseMembers(s, i, acc) == ParseMember(s, acc, ParseString(s, i))

\* The members r, when they end the text s.
Whole(s, r) == IF r.ok /\ r.next = Len(s) + 1 THEN Ok(r.val) ELSE Fail

\* JSON.parse of the text of an object; throws (SyntaxError) on anything
\* else, and on text after the object.
JsonParse(s) ==
  IF Len(s) < 2 \/ s[1] # 123 THEN Fail
  ELSE IF s[2] = 125 THEN (IF Len(s) = 2 THEN Ok(<<>>) ELSE Fail)
  ELSE Whole(s, ParseMembers(s, 2, <<>>))

\* Property names of the transaction object.
P_amount == <<97, 109, 111, 117, 110, 116>>
P_description == <<100, 101, 115, 99, 114, 105, 112, 116, 105, 111, 110>>
P_category == <<99, 97, 116, 101, 103, 111, 114, 121>>
P_merchant == <<109, 101, 114, 99, 104, 97, 110, 116>>
P_date == <<100, 97, 116, 101>>

\* The object the transaction form submits (TransactionInput): merchant is
\* undefined when the field is left empty, and JSON.stringify leaves an
\* undefined property out.
TransactionObject(t) ==
  <<<<P_amount, Num(t.amount)>>, <<P_description, Str(t.description)>>,
    <<P_category, Str(t.category)>>>>
  \o (IF t.merchant = Undefined THEN <<>> ELSE <<<<P_merchant, Str(t.merchant)>>>>)
  \o <<<<P_date, Str(t.date)>>>>

\* The result of encryptTransaction from its two encryptData results.
Encrypted(full, amountEncrypted) ==
  [encrypted_data |-> full.encryptedData,
   iv |-> full.iv,
   amount_encrypted |-> amountEncrypted.encryptedData]

\* An encryptTransaction that encrypts the amount under the IV of the
\* record.
encryptTransaction_sharedIv(transaction, key, iv1, iv2) ==
  Encrypted(encryptData(JsonStringify(TransactionObject(transaction)), key, iv1),
            encryptData(NumToString(transaction.amount), key, iv1))

\* export async function encryptTransaction(transaction, key).  iv1 and
\* iv2 are the values the two encryptData calls draw.
encryptTransaction(transaction, key, iv1, iv2) ==
  Encrypted(encryptData(JsonStringify(TransactionObject(transaction)), key, iv1),
            encryptData(NumToString(transaction.amount), key, iv2))

\* JSON.parse(decryptedJson), when decryptData did not throw.
ParseDecrypted(decryptedJson) ==
  IF decryptedJson.ok THEN JsonParse(decryptedJson.val) ELSE Fail

\* export async function decryptTransaction(encryptedData, iv, key)
decryptTransaction(encryptedData, iv, key) ==
  ParseDecrypted(decryptData(encryptedData, iv, key))


(***************************************************************************)
(* The server.  db holds the three tables of database.ts and SQLite's      *)
(* AUTOINCREMENT counters; the clock stands for CURRENT_TIMESTAMP and      *)
(* advances with every row written.  better-sqlite3 opens the database     *)
(* with foreign keys enforced, and database.ts does not switch them off.   *)
(* A column that is NULL holds 0 (an id) or <<>> (a text): the models      *)
(* store `x || null`, which turns 0 and '' into NULL as well.  The users   *)
(* table's timestamps are read by no handler and are left out.             *)
(***************************************************************************)
Null == [t |-> "null"]

EmptyDb ==
  [users |-> <<>>, transactions |-> <<>>, anomalies |-> <<>>,
   seq |-> [users |-> 0, transactions |-> 0, anomalies |-> 0],
   clock |-> 0]

Response(db, status, body) == [db |-> db, status |-> status, body |-> body]

Range(s) == {s[i] : i \in 1..Len(s)}

RowById(rows, id) ==
  IF \E i \in 1..Len(rows) : rows[i].id = id
    THEN (CHOOSE r \in Range(rows) : r.id = id)
    ELSE Null

\* bcrypt.hash / bcrypt.compare over the UTF-8 bytes of the password
PasswordHash(password) == [bcrypt |-> str2ab(password)]
UserModel_verifyPassword(password, hash) == hash = PasswordHash(password)

UserModel_findByEmail(db, email) ==
  IF \E i \in 1..Len(db.users) : db.users[i].email = email
    THEN (CHOOSE u \in Range(db.users) : u.email = email)
    ELSE Null

\* generateToken({userId, email}) and verifyToken
generateToken(payload) == [userId |-> payload.userId, email |-> payload.email]

\* z.string().email(): the model's addresses are told apart by their "@".
IsEmail(s) == \E i \in 2..(Len(s) - 1) : s[i] = 64

\* registerSchema, loginSchema
registerSchema(body) == IsEmail(body.email) /\ Len(body.password) >= 8
loginSchema(body) == IsEmail(body.email) /\ Len(body.password) >= 1

\* controllers/authController.ts register, behind validate(registerSchema)
srv_register(db, body) ==
  IF ~registerSchema(body) THEN Response(db, 400, Null)
  ELSE IF UserModel_findByEmail(db, body.email) # Null THEN Response(db, 409, Null)
  ELSE LET id == db.seq.users + 1
           row == [id |-> id, email |-> body.email,
                   password_hash |-> PasswordHash(body.password)]
           db2 == [db EXCEPT !.users = Append(@, row), !.seq.users = id]
       IN Response(db2, 201,
                   [token |-> generateToken([userId |-> id, email |-> body.email]),
                    user |-> [id |-> id, email |-> body.email]])

\* controllers/authController.ts login, behind validate(loginSchema)
srv_login(db, body) ==
  LET u == UserModel_findByEmail(db, body.email) IN
    IF ~loginSchema(body) THEN Response(db, 400, Null)
    ELSE IF u = Null THEN Response(db, 401, Null)
    ELSE IF ~UserModel_verifyPassword(body.password, u.password_hash)
      THEN Response(db, 401, Null)
    ELSE Response(db, 200,
                  [token |-> generateToken([userId |-> u.id, email |-> u.email]),
                   user |-> [id |-> u.id, email |-> u.email]])

\* date: z.string().regex(/^\d{4}-\d{2}-\d{2}$/)
IsDate(s) ==
  /\ Len(s) = 10
  /\ \A i \in 1..10 : IF i \in {5, 8} THEN s[i] = 45 ELSE IsDigit(s[i])

\* transactionSchema; category is optional (<<>> when absent)
transactionSchema(body) ==
  /\ Len(body.encrypted_data) >= 1
  /\ Len(body.iv) >= 1
  /\ Len(body.amount_encrypted) >= 1
  /\ IsDate(body.date)

\* TransactionModel.create
TransactionModel_create(db, data) ==
  LET id == db.seq.transactions + 1
      now == db.clock + 1
      row == [id |-> id, user_id |-> data.user_id,
              encrypted_data |-> data.encrypted_data, iv |-> data.iv,
              category |-> data.category,
              amount_encrypted |-> data.amount_encrypted, date |-> data.date,
              created_at |-> now, updated_at |-> now]
  IN [db EXCEPT !.transactions = Append(@, row), !.seq.transactions = id,
                !.clock = now]

TransactionModel_findById(db, id) == RowById(db.transactions, id)

RECURSIVE StringLess(_, _)
\* s sorts before t (SQLite's BINARY collation)
StringLess(s, t) ==
  IF t = <<>> THEN FALSE
  ELSE IF s = <<>> THEN TRUE
  ELSE IF Head(s) # Head(t) THEN Head(s) < Head(t)
  ELSE StringLess(Tail(s), Tail(t))

RECURSIVE InsertByDateDesc(_, _)
InsertByDateDesc(sorted, row) ==
  IF sorted = <<>> THEN <<row>>
  ELSE IF StringLess(Head(sorted).date, row.date) THEN <<row>> \o sorted
  ELSE <<Head(sorted)>> \o InsertByDateDesc(Tail(sorted), row)

RECURSIVE OrderByDateDesc(_)
\* ORDER BY date DESC; rows of one date stay in rowid order
OrderByDateDesc(rows) ==
  IF rows = <<>> THEN <<>>
  ELSE InsertByDateDesc(OrderByDateDesc(SubSeq(rows, 1, Len(rows) - 1)),
                        rows[Len(rows)])

\* TransactionModel.findByUserId
TransactionModel_findByUserId(db, userId) ==
  OrderByDateDesc(SelectSeq(db.transactions, LAMBDA r : r.user_id = userId))

\* TransactionModel.update with all five columns given (the PUT route
\* validates the body with transactionSchema)
TransactionModel_update(db, id, data) ==
  LET now == db.clock + 1
      upd(r) == IF r.id # id THEN r
                ELSE [r EXCEPT !.encrypted_data = data.encrypted_data,
                               !.iv = data.iv, !.category = data.category,
                               !.amount_encrypted = data.amount_encrypted,
                               !.date = data.date, !.updated_at = now]
  IN [db EXCEPT !.transactions = [i \in 1..Len(@) |-> upd(@[i])], !.clock = now]

\* TransactionModel.delete: DELETE FROM transactions WHERE id = ?, and with
\* it (anomalies.transaction_id ... ON DELETE CASCADE) every anomaly that
\* references the row.
TransactionModel_delete(db, id) ==
  [db EXCEPT !.transactions = SelectSeq(@, LAMBDA r : r.id # id),
             !.anomalies = SelectSeq(@, LAMBDA a : a.transaction_id # id)]

\* controllers/transactionController.ts createTransaction
srv_createTransaction(db, userId, body) ==
  IF ~transactionSchema(body) THEN Response(db, 400, Null)
  ELSE LET db2 == TransactionModel_create(db,
                    [user_id |-> userId, encrypted_data |-> body.encrypted_data,
                     iv |-> body.iv, category |-> body.category,
                     amount_encrypted |-> body.amount_encrypted, date |-> body.date])
       IN Response(db2, 201, TransactionModel_findById(db2, db2.seq.transactions))

\* controllers/transactionController.ts getTransactions (no date range)
srv_getTransactions(db, userId) ==
  Response(db, 200, TransactionModel_findByUserId(db, userId))

\* controllers/transactionController.ts getTransaction
srv_getTransaction(db, userId, transactionId) ==
  LET transaction == TransactionModel_findById(db, transactionId) IN
    IF transaction = Null THEN Response(db, 404, Null)
    ELSE IF transaction.user_id # userId THEN Response(db, 403, Null)
    ELSE Response(db, 200, transaction)

\* controllers/transactionController.ts updateTransaction
srv_updateTransaction(db, userId, transactionId, body) ==
  LET existingTransaction == TransactionModel_findById(db, transactionId) IN
    IF ~transactionSchema(body) THEN Response(db, 400, Null)
    ELSE IF existingTransaction = Null THEN Response(db, 404, Null)
    ELSE IF existingTransaction.user_id # userId THEN Response(db, 403, Null)
    ELSE LET db2 == TransactionModel_update(db, transactionId, body)
         IN Response(db2, 200, TransactionModel_findById(db2, transactionId))

\* controllers/transactionController.ts deleteTransaction
srv_deleteTransaction(db, userId, transactionId) ==
  LET transaction == TransactionModel_findById(db, transactionId) IN
    IF transaction = Null THEN Response(db, 404, Null)
    ELSE IF transaction.user_id # userId THEN Response(db, 403, Null)
    ELSE Response(TransactionModel_delete(db, transactionId), 200, Null)


(***************************************************************************)
(* Anomalies: models/Anomaly.ts, controllers/anomalyController.ts and the  *)
(* batch scan of services/anomalyDetector.ts.                              *)
(***************************************************************************)
AnomalyModel_findById(db, id) == RowById(db.anomalies, id)

\* AnomalyModel.create.  The INSERT throws when anomaly_type or severity
\* is missing (NOT NULL; a missing property is a field the record lacks)
\* and when transaction_id names no row of transactions (FOREIGN KEY);
\* detected_at and acknowledged take their defaults.
AnomalyModel_create(db, data) ==
  IF "anomaly_type" \notin DOMAIN data \/ "severity" \notin DOMAIN data THEN Fail
  ELSE IF data.transaction_id # 0
          /\ TransactionModel_findById(db, data.transaction_id) = Null THEN Fail
  ELSE LET id == db.seq.anomalies + 1
           now == db.clock + 1
           row == [id |-> id, user_id |-> data.user_id,
                   transaction_id |-> data.transaction_id,
                   anomaly_type |-> data.anomaly_type,
                   severity |-> data.severity,
                   description |-> data.description,
                   detected_at |-> now, acknowledged |-> FALSE]
       IN Ok([db EXCEPT !.anomalies = Append(@, row), !.seq.anomalies = id,
                        !.clock = now])

RECURSIVE InsertByDetectedDesc(_, _)
InsertByDetectedDesc(sorted, row) ==
  IF sorted = <<>> THEN <<row>>
  ELSE IF Head(sorted).detected_at < row.detected_at THEN <<row>> \o sorted
  ELSE <<Head(sorted)>> \o InsertByDetectedDesc(Tail(sorted), row)

RECURSIVE OrderByDetectedDesc(_)
OrderByDetectedDesc(rows) ==
  IF rows = <<>> THEN <<>>
  ELSE InsertByDetectedDesc(OrderByDetectedDesc(SubSeq(rows, 1, Len(rows) - 1)),
                            rows[Len(rows)])

\* AnomalyModel.findByUserId(userId, limit)
AnomalyModel_findByUserId(db, userId, limit) ==
  LET all == OrderByDetectedDesc(SelectSeq(db.anomalies, LAMBDA a : a.user_id = userId))
  IN SubSeq(all, 1, IF Len(all) < limit THEN Len(all) ELSE limit)

\* AnomalyModel.findUnacknowledged(userId)
AnomalyModel_findUnacknowledged(db, userId) ==
  OrderByDetectedDesc(SelectSeq(db.anomalies,
                                LAMBDA a : a.user_id = userId /\ ~a.acknowledged))

\* An acknowledge that flips the flag instead of setting it.
AnomalyModel_acknowledge_toggle(db, id) ==
  [db |-> [db EXCEPT !.anomalies =
                 [i \in 1..Len(@) |->
                    IF @[i].id = id THEN [@[i] EXCEPT !.acknowledged = ~@] ELSE @[i]]],
   changes |-> Cardinality({i \in 1..Len(db.anomalies) : db.anomalies[i].id = id})]

\* An acknowledge that updates only rows not yet acknowledged
\* (... WHERE id = ? AND acknowledged = 0).
AnomalyModel_acknowledge_onlyNew(db, id) ==
  [db |-> [db EXCEPT !.anomalies =
                 [i \in 1..Len(@) |->
                    IF @[i].id = id THEN [@[i] EXCEPT !.acknowledged = TRUE] ELSE @[i]]],
   changes |-> Cardinality({i \in 1..Len(db.anomalies) :
                              db.anomalies[i].id = id /\ ~db.anomalies[i].acknowledged})]

\* AnomalyModel.acknowledge: UPDATE anomalies SET acknowledged = 1 WHERE
\* id = ?.  changes counts the rows the WHERE clause selects, whether or
\* not their value is new; the method returns changes > 0.
AnomalyModel_acknowledge(db, id) ==
  [db |-> [db EXCEPT !.anomalies =
                 [i \in 1..Len(@) |->
                    IF @[i].id = id THEN [@[i] EXCEPT !.acknowledged = TRUE] ELSE @[i]]],
   changes |-> Cardinality({i \in 1..Len(db.anomalies) : db.anomalies[i].id = id})]

\* AnomalyModel.delete
AnomalyModel_delete(db, id) ==
  [db |-> [db EXCEPT !.anomalies = SelectSeq(@, LAMBDA a : a.id # id)],
   changes |-> Cardinality({i \in 1..Len(db.anomalies) : db.anomalies[i].id = id})]

\* controllers/anomalyController.ts getAnomalies
srv_getAnomalies(db, userId, limit) ==
  Response(db, 200, AnomalyModel_findByUserId(db, userId, limit))

\* controllers/anomalyController.ts getUnacknowledgedAnomalies
srv_getUnacknowledgedAnomalies(db, userId) ==
  Response(db, 200, AnomalyModel_findUnacknowledged(db, userId))

\* controllers/anomalyController.ts acknowledgeAnomaly
srv_acknowledgeAnomaly(db, userId, anomalyId) ==
  LET anomaly == AnomalyModel_findById(db, anomalyId) IN
    IF anomaly = Null THEN Response(db, 404, Null)
    ELSE IF anomaly.user_id # userId THEN Response(db, 403, Null)
    ELSE LET r == AnomalyModel_acknowledge(db, anomalyId)
         IN IF r.changes > 0 THEN Response(r.db, 200, Null)
            ELSE Response(r.db, 500, Null)

\* controllers/anomalyController.ts createAnomaly: no schema guards the
\* route; a throw of the model becomes a 500.
srv_createAnomaly(db, userId, body) ==
  LET r == AnomalyModel_create(db,
             [f \in DOMAIN body \cup {"user_id"} |->
                IF f = "user_id" THEN userId ELSE body[f]])
  IN IF r.ok THEN Response(r.val, 201, AnomalyModel_findById(r.val, r.val.seq.anomalies))
     ELSE Response(db, 500, Null)

Abs(x) == IF x < 0 THEN 0 - x ELSE x

\* ---------------------------------------------------------------------------
\* Number: IEEE-754 binary64 arithmetic, as the server's JavaScript engine
\* computes it.  A natural number of any size is a little-endian sequence of
\* 14-bit limbs (no leading zero limb, <<>> is zero); a finite Number is
\* [s, m, e] with value s * m * 2^e, where s is -1, 0 or 1 and m has exactly
\* 53 bits (m = <<>> and e = 0 for zero).  Every operation returns the exact
\* result rounded to nearest, ties to even.  NaN, the infinities, the sign of
\* zero, overflow and subnormals are outside the values the actions draw.
\* ---------------------------------------------------------------------------

RECURSIVE BigOfInt(_)
BigOfInt(n) == IF n = 0 THEN <<>> ELSE <<n % 16384>> \o BigOfInt(n \div 16384)

RECURSIVE BigToInt(_)
BigToInt(a) == IF a = <<>> THEN 0 ELSE Head(a) + 16384 * BigToInt(Tail(a))

RECURSIVE BigNorm(_)
BigNorm(a) ==
  IF a = <<>> THEN <<>>
  ELSE IF a[Len(a)] # 0 THEN a
  ELSE BigNorm(SubSeq(a, 1, Len(a) - 1))

Limb(a, i) == IF i <= Len(a) THEN a[i] ELSE 0

RECURSIVE BigAddFrom(_, _, _, _)
BigAddFrom(a, b, i, carry) ==
  IF i > Len(a) /\ i > Len(b)
  THEN IF carry = 0 THEN <<>> ELSE <<carry>>
  ELSE <<(Limb(a, i) + Limb(b, i) + carry) % 16384>>
       \o BigAddFrom(a, b, i + 1, (Limb(a, i) + Limb(b, i) + carry) \div 16384)

BigAdd(a, b) == BigNorm(BigAddFrom(a, b, 1, 0))

\* a - b for a >= b
RECURSIVE BigSubFrom(_, _, _, _)
BigSubFrom(a, b, i, borrow) ==
  IF i > Len(a) THEN <<>>
  ELSE <<(16384 + Limb(a, i) - Limb(b, i) - borrow) % 16384>>
       \o BigSubFrom(a, b, i + 1, IF Limb(a, i) - Limb(b, i) - borrow < 0 THEN 1 ELSE 0)

BigSub(a, b) == BigNorm(BigSubFrom(a, b, 1, 0))

RECURSIVE BigCmpAt(_, _, _)
BigCmpAt(a, b, i) ==
  IF i = 0 THEN 0
  ELSE IF a[i] > b[i] THEN 1
  ELSE IF a[i] < b[i] THEN -1
  ELSE BigCmpAt(a, b, i - 1)

\* -1, 0 or 1 as a < b, a = b or a > b
BigCmp(a, b) ==
  IF Len(a) > Len(b) THEN 1
  ELSE IF Len(a) < Len(b) THEN -1
  ELSE BigCmpAt(a, b, Len(a))

RECURSIVE BigMulSmallFrom(_, _, _, _)
BigMulSmallFrom(a, d, i, carry) ==
  IF i > Len(a)
  THEN IF carry = 0 THEN <<>> ELSE <<carry>>
  ELSE <<(a[i] * d + carry) % 16384>>
       \o BigMulSmallFrom(a, d, i + 1, (a[i] * d + carry) \div 16384)

\* a * d for one limb d
BigMulSmall(a, d) == IF d = 0 THEN <<>> ELSE BigMulSmallFrom(a, d, 1, 0)

Zeros(k) == [i \in 1..k |-> 0]

RECURSIVE BigMulFrom(_, _, _)
BigMulFrom(a, b, j) ==
  IF j > Len(b) THEN <<>>
  ELSE BigAddFrom(Zeros(j - 1) \o BigMulSmall(a, b[j]), BigMulFrom(a, b, j + 1), 1, 0)

BigMul(a, b) == BigNorm(BigMulFrom(a, b, 1))

\* a * 2^k
BigShl(a, k) ==
  IF a = <<>> THEN <<>> ELSE Zeros(k \div 14) \o BigMulSmall(a, 2 ^ (k % 14))

BigShrBits(a, r) ==
  BigNorm([i \in 1..Len(a) |->
             (a[i] \div (2 ^ r)) + (Limb(a, i + 1) % (2 ^ r)) * (2 ^ (14 - r))])

\* floor(a / 2^k)
BigShr(a, k) == BigShrBits(SubSeq(a, (k \div 14) + 1, Len(a)), k % 14)

\* a mod 2^k
BigLow(a, k) == BigSub(a, BigShl(BigShr(a, k), k))

BitLen(a) ==
  IF a = <<>> THEN 0
  ELSE 14 * (Len(a) - 1) + CHOOSE k \in 1..14 : 2 ^ (k - 1) <= a[Len(a)] /\ a[Len(a)] < 2 ^ k

BigIsOdd(a) == a # <<>> /\ a[1] % 2 = 1

\* one digit of a long division in base 2^14: the quotient of r by d, for a
\* d of four limbs whose top limb is at least 2^13 and r < d * 2^14
RECURSIVE Corrected(_, _, _)
Corrected(r, d, digit) ==
  IF BigCmp(BigMulSmall(d, digit), r) > 0 THEN Corrected(r, d, digit - 1) ELSE digit

QuotientDigit(r, d) ==
  Corrected(r, d, IF (Limb(r, 5) * 16384 + Limb(r, 4)) \div d[4] > 16383 THEN 16383
                  ELSE (Limb(r, 5) * 16384 + Limb(r, 4)) \div d[4])

\* the digits of floor(r * 2^(14 * (steps - 1)) / d) for r < 2 * d, and what remains
RECURSIVE DivSteps(_, _, _, _)
RECURSIVE DivStep(_, _, _, _, _)
DivSteps(r, d, q, steps) ==
  IF steps = 0 THEN [q |-> BigNorm(q), r |-> r]
  ELSE DivStep(r, d, q, steps, QuotientDigit(r, d))

DivStep(r, d, q, steps, digit) ==
  DivSteps(BigShl(BigSub(r, BigMulSmall(d, digit)), 14), d, <<digit>> \o q, steps - 1)

\* one bit of an integer square root: st.bit is a power of 4
SqrtStep(st) ==
  IF BigCmp(st.r, BigAdd(st.q, st.bit)) >= 0
  THEN [r |-> BigSub(st.r, BigAdd(st.q, st.bit)), q |-> BigAdd(BigShr(st.q, 1), st.bit),
        bit |-> BigShr(st.bit, 2)]
  ELSE [r |-> st.r, q |-> BigShr(st.q, 1), bit |-> BigShr(st.bit, 2)]

\* 8 * steps bits
RECURSIVE SqrtSteps(_, _)
SqrtSteps(st, steps) ==
  IF steps = 0 \/ st.bit = <<>> THEN st
  ELSE SqrtSteps(SqrtStep(SqrtStep(SqrtStep(SqrtStep(
                 SqrtStep(SqrtStep(SqrtStep(SqrtStep(st)))))))), steps - 1)

Zero == [s |-> 0, m |-> <<>>, e |-> 0]

\* q has 53 bits, or is 2^53 after a carry
Carried(s, q, e) ==
  IF BitLen(q) = 54 THEN [s |-> s, m |-> BigShr(q, 1), e |-> e + 1]
  ELSE [s |-> s, m |-> q, e |-> e]

\* half compares the discarded bits with one half of the last kept place
RoundedTo(s, q, half, e, sticky) ==
  IF half > 0 \/ (half = 0 /\ (sticky \/ BigIsOdd(q)))
  THEN Carried(s, BigAdd(q, <<1>>), e)
  ELSE [s |-> s, m |-> q, e |-> e]

RoundedAt(s, n, e, sticky, sh) ==
  RoundedTo(s, BigShr(n, sh), BigCmp(BigLow(n, sh), BigShl(<<1>>, sh - 1)), e + sh, sticky)

\* the Number nearest to s * (n + f) * 2^e, where 0 < f < 1 if sticky and f = 0 if not
Rounded(s, n, e, sticky) ==
  IF n = <<>> THEN Zero
  ELSE IF BitLen(n) <= 53
  THEN [s |-> s, m |-> BigShl(n, 53 - BitLen(n)), e |-> e - (53 - BitLen(n))]
  ELSE RoundedAt(s, n, e, sticky, BitLen(n) - 53)

\* the Number of an integer
NumberOf(n) == Rounded(IF n < 0 THEN -1 ELSE 1, BigOfInt(Abs(n)), 0, FALSE)

Negated(a) == [a EXCEPT !.s = 0 - a.s]

Magnitude(a) == [a EXCEPT !.s = a.s * a.s]

Differ(sa, a, sb, b, e, c) ==
  IF c = 0 THEN Zero
  ELSE IF c > 0 THEN Rounded(sa, BigSub(a, b), e, FALSE)
  ELSE Rounded(sb, BigSub(b, a), e, FALSE)

Aligned(sa, a, sb, b, e) ==
  IF sa = sb THEN Rounded(sa, BigAdd(a, b), e, FALSE)
  ELSE Differ(sa, a, sb, b, e, BigCmp(a, b))

AddAt(a, b, e) == Aligned(a.s, BigShl(a.m, a.e - e), b.s, BigShl(b.m, b.e - e), e)

\* a + b
Plus(a, b) ==
  IF a.s = 0 THEN b
  ELSE IF b.s = 0 THEN a
  ELSE AddAt(a, b, IF a.e < b.e THEN a.e ELSE b.e)

\* a - b
Minus(a, b) == Plus(a, Negated(b))

\* a * b
Times(a, b) == Rounded(a.s * b.s, BigMul(a.m, b.m), a.e + b.e, FALSE)

Quotient(s, steps, e) == Rounded(s, steps.q, e, steps.r # <<>>)

\* a / b for b other than zero
Over(a, b) ==
  IF a.s = 0 THEN Zero
  ELSE Quotient(a.s * b.s, DivSteps(BigShl(a.m, 3), BigShl(b.m, 3), <<>>, 5), a.e - b.e - 56)

\* Math.sqrt(a) for a >= 0
Sqrt(a) ==
  IF a.s = 0 THEN Zero
  ELSE Quotient(1, SqrtSteps([r |-> BigShl(a.m, 58 + (a.e % 2)), q |-> <<>>,
                              bit |-> BigShl(<<1>>, 110)], 7),
                (a.e - 58 - (a.e % 2)) \div 2)

\* -1, 0 or 1 as a < b, a = b or a > b
Compared(a, b) ==
  IF a.s # b.s THEN (IF a.s > b.s THEN 1 ELSE -1)
  ELSE IF a.e # b.e THEN (IF a.e > b.e THEN a.s ELSE 0 - a.s)
  ELSE a.s * BigCmp(a.m, b.m)

Greater(a, b) == Compared(a, b) > 0

\* Math.ceil(a), an integer of moderate size
Ceil(a) ==
  IF a.s = 0 THEN 0
  ELSE IF a.e >= 0 THEN a.s * BigToInt(BigShl(a.m, a.e))
  ELSE IF a.s > 0 /\ BigLow(a.m, 0 - a.e) # <<>>
  THEN BigToInt(BigShr(a.m, 0 - a.e)) + 1
  ELSE a.s * BigToInt(BigShr(a.m, 0 - a.e))

\* the integer n for which n / 10^digits is nearest to |a|, the larger one of
\* two (Number.prototype.toFixed)
FixedPoint(a, digits) ==
  IF a.s = 0 THEN 0
  ELSE IF a.e >= 0 THEN BigToInt(BigShl(BigMulSmall(a.m, 10 ^ digits), a.e))
  ELSE BigToInt(BigShr(BigAdd(BigShl(BigMulSmall(a.m, 10 ^ digits), 1),
                              BigShl(<<1>>, 0 - a.e)),
                       1 - a.e))

\* n / 2 (2.5 is Halves(5), 1.5 is Halves(3))
Halves(n) == Rounded(IF n < 0 THEN -1 ELSE 1, BigOfInt(Abs(n)), -1, FALSE)

Numbers(values) == [i \in 1..Len(values) |-> NumberOf(values[i])]

\* ---------------------------------------------------------------------------
\* services/anomalyDetector.ts
\* ---------------------------------------------------------------------------

\* values.reduce((sum, val) => sum + val, 0) from element i on
RECURSIVE Reduced(_, _, _)
Reduced(values, i, sum) ==
  IF i > Len(values) THEN sum
  ELSE Reduced(values, i + 1, Plus(sum, values[i]))

\* AnomalyDetector.mean(values)
mean(values) ==
  IF Len(values) = 0 THEN Zero
  ELSE Over(Reduced(values, 1, Zero), NumberOf(Len(values)))

\* Math.pow(x, 2): the engine returns x * x for the exponent 2
Squared(x) == Times(x, x)

SquareDiffs(values, avg) ==
  [i \in 1..Len(values) |-> Squared(Minus(values[i], avg))]

\* A variant that divides the squared deviations by n - 1
standardDeviation_sample(values) ==
  IF Len(values) < 2 THEN Zero
  ELSE Sqrt(Over(Reduced(SquareDiffs(values, mean(values)), 1, Zero),
                 NumberOf(Len(values) - 1)))

\* AnomalyDetector.standardDeviation(values)
standardDeviation(values) ==
  IF Len(values) = 0 THEN Zero
  ELSE Sqrt(mean(SquareDiffs(values, mean(values))))

\* AnomalyDetector.zScore(value, mean, stdDev)
zScore(value, avg, stdDev) ==
  IF stdDev.s = 0 THEN Zero ELSE Over(Minus(value, avg), stdDev)

\* An AnomalyResult without its description
Result(isAnomaly, type, severity) ==
  [isAnomaly |-> isAnomaly, type |-> type, severity |-> severity]

\* absZScore > 4 ? 'high' : absZScore > 3 ? 'medium' : 'low'
Banded(x) ==
  IF Greater(x, NumberOf(4)) THEN "high"
  ELSE IF Greater(x, NumberOf(3)) THEN "medium" ELSE "low"

AmountResult(absZScore, threshold) ==
  IF Greater(absZScore, threshold)
  THEN Result(TRUE, "unusual_amount", Banded(absZScore))
  ELSE Result(FALSE, "normal", "low")

\* AnomalyDetector.detectAmountAnomaly(amount, historicalAmounts, threshold)
detectAmountAnomaly(amount, historicalAmounts, threshold) ==
  IF Len(historicalAmounts) < 5 THEN Result(FALSE, "insufficient_data", "low")
  ELSE AmountResult(Magnitude(zScore(amount, mean(historicalAmounts),
                                     standardDeviation(historicalAmounts))),
                    threshold)

\* A variant that flags a ratio equal to the threshold
FrequencyResult_atLeast(ratio, threshold) ==
  IF ~Greater(threshold, ratio)
  THEN Result(TRUE, "unusual_frequency", Banded(ratio))
  ELSE Result(FALSE, "normal", "low")

FrequencyResult(ratio, threshold) ==
  IF Greater(ratio, threshold)
  THEN Result(TRUE, "unusual_frequency", Banded(ratio))
  ELSE Result(FALSE, "normal", "low")

\* AnomalyDetector.detectFrequencyAnomaly(category, recentCount, historicalAverage, threshold)
detectFrequencyAnomaly(category, recentCount, historicalAverage, threshold) ==
  IF historicalAverage.s = 0 THEN Result(FALSE, "new_category", "low")
  ELSE FrequencyResult(Over(recentCount, historicalAverage), threshold)

\* A variant that flags an amount of exactly twice the percentile
detectLargeTransaction_atLeast(amount, percentile90) ==
  IF ~Greater(Times(percentile90, NumberOf(2)), amount)
  THEN Result(TRUE, "large_transaction",
              IF Greater(amount, Times(percentile90, NumberOf(5))) THEN "high"
              ELSE "medium")
  ELSE Result(FALSE, "normal", "low")

\* AnomalyDetector.detectLargeTransaction(amount, percentile90)
detectLargeTransaction(amount, percentile90) ==
  IF Greater(amount, Times(percentile90, NumberOf(2)))
  THEN Result(TRUE, "large_transaction",
              IF Greater(amount, Times(percentile90, NumberOf(5))) THEN "high"
              ELSE "medium")
  ELSE Result(FALSE, "normal", "low")

\* A variant whose high band starts at 2 times the average
SpikeResult_highFrom2(periodTotal, avgPeriodSpending, threshold) ==
  IF Greater(periodTotal, Times(avgPeriodSpending, threshold))
  THEN Result(TRUE, "spending_spike",
              IF Greater(periodTotal, Times(avgPeriodSpending, NumberOf(2))) THEN "high"
              ELSE "low")
  ELSE Result(FALSE, "normal", "low")

SpikeResult(periodTotal, avgPeriodSpending, threshold) ==
  IF Greater(periodTotal, Times(avgPeriodSpending, threshold))
  THEN Result(TRUE, "spending_spike",
              IF Greater(periodTotal, Times(avgPeriodSpending, Halves(5))) THEN "high"
              ELSE IF Greater(periodTotal, Times(avgPeriodSpending, NumberOf(2)))
              THEN "medium" ELSE "low")
  ELSE Result(FALSE, "normal", "low")

\* AnomalyDetector.detectSpendingSpike(periodTotal, historicalPeriodAverages, threshold)
detectSpendingSpike(periodTotal, historicalPeriodAverages, threshold) ==
  IF Len(historicalPeriodAverages) < 3 THEN Result(FALSE, "insufficient_data", "low")
  ELSE SpikeResult(periodTotal, mean(historicalPeriodAverages), threshold)

\* Math.ceil((percentile / 100) * sortedValues.length) - 1
PercentileIndex(p, length) ==
  Ceil(Times(Over(p, NumberOf(100)), NumberOf(length))) - 1

\* AnomalyDetector.percentile(sortedValues, percentile), for a percentile
\* up to 100 (the 0-based index is the 1-based place less one)
percentile(sortedValues, p) ==
  IF Len(sortedValues) = 0 THEN Zero
  ELSE IF PercentileIndex(p, Len(sortedValues)) < 0 THEN sortedValues[1]
  ELSE sortedValues[PercentileIndex(p, Len(sortedValues)) + 1]

RECURSIVE InsertAscending(_, _)
InsertAscending(sorted, x) ==
  IF sorted = <<>> THEN <<x>>
  ELSE IF Compared(sorted[Len(sorted)], x) <= 0 THEN Append(sorted, x)
  ELSE Append(InsertAscending(SubSeq(sorted, 1, Len(sorted) - 1), x), sorted[Len(sorted)])

\* [...amounts].sort((a, b) => a - b)
RECURSIVE SortAscending(_)
SortAscending(values) ==
  IF values = <<>> THEN <<>>
  ELSE InsertAscending(SortAscending(SubSeq(values, 1, Len(values) - 1)),
                       values[Len(values)])

\* if (result.isAnomaly) anomalies.push(result)
Pushed(result) == IF result.isAnomaly THEN <<result>> ELSE <<>>

AmountsOf(historicalTransactions) ==
  [i \in 1..Len(historicalTransactions) |-> historicalTransactions[i].amount]

\* A variant in which a flagged amount suppresses the large-transaction rule
LargePart_suppressed(amount, amounts) ==
  IF Len(amounts) >= 10 /\ ~detectAmountAnomaly(amount, amounts, Halves(5)).isAnomaly
  THEN Pushed(detectLargeTransaction(amount,
                percentile(SortAscending(amounts), NumberOf(90))))
  ELSE <<>>

LargePart(amount, amounts) ==
  IF Len(amounts) >= 10
  THEN Pushed(detectLargeTransaction(amount,
                percentile(SortAscending(amounts), NumberOf(90))))
  ELSE <<>>

\* a category is a string or null; null and '' are falsy
Truthy(category) == IF category = Null THEN FALSE ELSE Len(category) > 0

SameCategory(category, historicalTransactions) ==
  SelectSeq(historicalTransactions, LAMBDA t : category = t.category)

Relabeled(result) ==
  IF result.isAnomaly
  THEN <<[result EXCEPT !.type = "unusual_category_amount"]>>
  ELSE <<>>

CategoryPart(newTransaction, categoryTransactions) ==
  IF Len(categoryTransactions) >= 5
  THEN Relabeled(detectAmountAnomaly(newTransaction.amount,
                                     AmountsOf(categoryTransactions), NumberOf(2)))
  ELSE <<>>

\* AnomalyDetector.analyzeTransaction(newTransaction, historicalTransactions)
analyzeTransaction(newTransaction, historicalTransactions) ==
  Pushed(detectAmountAnomaly(newTransaction.amount, AmountsOf(historicalTransactions),
                             Halves(5)))
    \o LargePart(newTransaction.amount, AmountsOf(historicalTransactions))
    \o (IF Truthy(newTransaction.category)
        THEN CategoryPart(newTransaction,
                          SameCategory(newTransaction.category, historicalTransactions))
        ELSE <<>>)

\* With n whole values of sum S and sum of squares Q, in exact arithmetic
\* mean = S/n and the population deviation is sqrt(n*Q - S*S)/n, so that
\* the z-score of x is (n*x - S)/sqrt(n*Q - S*S), and 0 when the deviation
\* is 0.  ZNum and ZDen2 are that numerator and the square of that
\* denominator; ZExceeds is |z| > p/q in exact arithmetic.
RECURSIVE Sum(_)
Sum(values) == IF values = <<>> THEN 0 ELSE Head(values) + Sum(Tail(values))

ZNum(x, values) == Len(values) * x - Sum(values)
ZDen2(values) ==
  Len(values) * Sum([i \in 1..Len(values) |-> values[i] * values[i]])
    - Sum(values) * Sum(values)

ZExceeds(x, values, p, q) ==
  /\ ZDen2(values) # 0
  /\ q * q * ZNum(x, values) * ZNum(x, values) > p * p * ZDen2(values)

ZSeverity(x, values) ==
  IF ZExceeds(x, values, 4, 1) THEN "high"
  ELSE IF ZExceeds(x, values, 3, 1) THEN "medium" ELSE "low"

ToFixed1Tenths(r) == NumToString(r \div 10) \o <<46, 48 + (r % 10)>>

\* amount.toFixed(2) of a whole amount
ToFixed2(amount) == NumToString(amount) \o <<46, 48, 48>>

\* `Amount ($${amount.toFixed(2)}) is ${Math.abs(zScore).toFixed(1)}.. from average`
BatchDescription(amount, z) ==
  <<65, 109, 111, 117, 110, 116, 32, 40, 36>> \o ToFixed2(amount) \o <<41, 32, 105, 115, 32>>
    \o ToFixed1Tenths(FixedPoint(z, 1)) \o <<207, 402>> \o <<32, 102, 114, 111, 109, 32, 97, 118, 101, 114, 97, 103, 101>>

ZScoresWith(amounts, avg, stdDev) ==
  [i \in 1..Len(amounts) |-> zScore(amounts[i], avg, stdDev)]

\* The z-scores batchAnalyze computes: mean and stdDev once over all the
\* amounts, then zScore of each amount
ZScores(amounts) == ZScoresWith(amounts, mean(amounts), standardDeviation(amounts))

\* nine amounts of 10 and one of 100
Typical == [i \in 1..10 |-> IF i = 10 THEN 100 ELSE 10]

\* Amounts: one high outlier among ten, one low outlier among ten, two high
\* outliers among twenty, one high outlier among nine, ten equal amounts,
\* and nine 4s with a 5
BatchAmounts ==
  {Typical,
   [i \in 1..10 |-> IF i = 10 THEN 10 ELSE 100],
   [i \in 1..20 |-> IF i >= 19 THEN 100 ELSE 10],
   [i \in 1..9 |-> IF i = 9 THEN 100 ELSE 10],
   [i \in 1..10 |-> 10],
   [i \in 1..10 |-> IF i = 10 THEN 5 ELSE 4]}

\* The z-scores of the lists of amounts that the actions hand to
\* batchAnalyze, computed once
ZScoreTable == [amounts \in BatchAmounts |-> ZScores(Numbers(amounts))]

ZScoresOf(amounts) ==
  IF amounts \in DOMAIN ZScoreTable THEN ZScoreTable[amounts]
  ELSE ZScores(Numbers(amounts))

RECURSIVE BatchCreate(_, _, _, _, _)
\* transactions.forEach of batchAnalyze from element i on: a throw of
\* AnomalyModel.create ends the scan, the rows inserted before it stay.
BatchCreate(db, userId, transactions, z, i) ==
  IF i > Len(transactions) THEN db
  ELSE IF ~Greater(Magnitude(z[i]), Halves(5))
  THEN BatchCreate(db, userId, transactions, z, i + 1)
  ELSE LET r == AnomalyModel_create(db,
                  [user_id |-> userId, transaction_id |-> transactions[i].id,
                   anomaly_type |-> "unusual_amount",
                   severity |-> Banded(Magnitude(z[i])),
                   description |-> BatchDescription(transactions[i].amount, z[i])])
       IN IF r.ok THEN BatchCreate(r.val, userId, transactions, z, i + 1)
          ELSE db

\* A variant that scans from 5 transactions on
AnomalyDetector_batchAnalyze_from5(db, userId, transactions) ==
  IF Len(transactions) < 5 THEN db
  ELSE BatchCreate(db, userId, transactions, ZScoresOf(AmountsOf(transactions)), 1)

\* AnomalyDetector.batchAnalyze(userId, transactions)
AnomalyDetector_batchAnalyze(db, userId, transactions) ==
  IF Len(transactions) < 10 THEN db
  ELSE BatchCreate(db, userId, transactions, ZScoresOf(AmountsOf(transactions)), 1)

(***************************************************************************)
(* The browser.  localStorage maps the keys that are present to their      *)
(* values; the key `salt_${userId}` is the pair <<"salt_", userId>>.       *)
(***************************************************************************)
setItem(ls, k, v) == [x \in DOMAIN ls \cup {k} |-> IF x = k THEN v ELSE ls[x]]
removeItem(ls, k) == [x \in DOMAIN ls \ {k} |-> ls[x]]

\* crypto.getRandomValues(new Uint8Array(n)): the draw number r of a
\* sequence of byte strings that are pairwise different (two draws of 96
\* or 128 random bits that coincide are not modelled).
RandomValues(n, r) == [i \in 1..n |-> (37 * r + 11 * i) % 256]

\* export function generateSalt()
generateSalt(r) == RandomValues(SALT_LENGTH, r)

\* SaltStorage.saveSalt(userId, salt)
SaltStorage_saveSalt(ls, userId, salt) ==
  setItem(ls, <<"salt_", userId>>, ab2base64(salt))

\* SaltStorage.getSalt(userId): null when nothing (or '') is stored, else
\* the decoded bytes (Ok) or the throw of atob (Fail).
SaltStorage_getSalt(ls, userId) ==
  IF <<"salt_", userId>> \notin DOMAIN ls THEN Null
  ELSE IF ls[<<"salt_", userId>>] = <<>> THEN Null
  ELSE base642ab(ls[<<"salt_", userId>>])

\* SaltStorage.removeSalt(userId)
SaltStorage_removeSalt(ls, userId) == removeItem(ls, <<"salt_", userId>>)

\* A key manager that also keeps the derived key in localStorage.
KeyManager_initializeForUser_persistKey(ls, userId, password, salt) ==
  [localStorage |-> setItem(SaltStorage_saveSalt(ls, userId, salt), <<"key_", userId>>,
                            ab2base64(str2ab(password) \o salt)),
   key |-> deriveKey(password, salt)]

\* KeyManager.initializeForUser(userId, password); salt is the value that
\* generateSalt() returns in this call.
KeyManager_initializeForUser(ls, userId, password, salt) ==
  [localStorage |-> SaltStorage_saveSalt(ls, userId, salt),
   key |-> deriveKey(password, salt)]

\* The key of getKeyForUser from the salt that getSalt returned, with the
\* salt's bytes taken in another order.
KeyFromSalt_otherSalt(password, salt) ==
  IF salt = Null THEN Fail
  ELSE IF ~salt.ok THEN Fail
  ELSE Ok(deriveKey(password, Tail(salt.val) \o <<Head(salt.val)>>))

\* A getKeyForUser that derives a key from a salt of zeros when none is
\* stored.
KeyFromSalt_defaultSalt(password, salt) ==
  IF salt = Null THEN Ok(deriveKey(password, [i \in 1..SALT_LENGTH |-> 0]))
  ELSE IF ~salt.ok THEN Fail
  ELSE Ok(deriveKey(password, salt.val))

\* The key of getKeyForUser from the salt that getSalt returned: a throw
\* when there is none.
KeyFromSalt(password, salt) ==
  IF salt = Null THEN Fail
  ELSE IF ~salt.ok THEN Fail
  ELSE Ok(deriveKey(password, salt.val))

\* KeyManager.getKeyForUser(userId, password)
KeyManager_getKeyForUser(ls, userId, password) ==
  KeyFromSalt(password, SaltStorage_getSalt(ls, userId))

\* KeyManager.clearUserData(userId)
KeyManager_clearUserData(ls, userId) == SaltStorage_removeSalt(ls, userId)

P_id == <<105, 100>>
P_email == <<101, 109, 97, 105, 108>>

\* JSON.stringify(response.user) and JSON.parse(userJson)
UserJson(u) == JsonStringify(<<<<P_id, Num(u.id)>>, <<P_email, Str(u.email)>>>>)
UserOfObject(o) ==
  IF o.ok THEN Ok([id |-> o.val[1][2].v, email |-> o.val[2][2].v]) ELSE Fail
UserOfJson(text) == UserOfObject(JsonParse(text))

\* One request of the ApiService: the request interceptor adds the token
\* that localStorage holds when the request is made.
ApiRequest(ls, method, path, body) ==
  [method |-> method, path |-> path, body |-> body,
   token |-> IF <<"auth_token">> \in DOMAIN ls THEN ls[<<"auth_token">>] ELSE Null]

\* The response interceptor on a 401: both entries leave localStorage (and
\* the page is sent to /login).
Unauthorized(ls) == removeItem(removeItem(ls, <<"auth_token">>), <<"user">>)

(***************************************************************************)
(* The state.  db is the server's database.  The other variables belong to *)
(* one browser: its localStorage, the state of useAuthState (user,         *)
(* encryptionKey, authIsLoading) and of useTransactions (transactions,     *)
(* isLoading, error).  pendingAuth is a login or register call suspended   *)
(* at its `await` of the key derivation; inflight holds the GET            *)
(* /transactions responses whose decryption has not finished, each with    *)
(* the key its fetchTransactions closure captured.  rng counts the draws   *)
(* of crypto.getRandomValues.  Three variables observe the run and are     *)
(* read by no operation: wire (the requests this browser sent in the last  *)
(* step), call (the last operation, its arguments and its outcome) and     *)
(* registeredKey (per user id, the key register() derived).                *)
(***************************************************************************)
VARIABLES db, localStorage, user, encryptionKey, authIsLoading, pendingAuth,
          transactions, isLoading, error, inflight, rng, wire, call,
          registeredKey

vars == <<db, localStorage, user, encryptionKey, authIsLoading, pendingAuth,
          transactions, isLoading, error, inflight, rng, wire, call,
          registeredKey>>

\* Rows written to the database in one run, and responses awaiting
\* decryption at one time.
MaxWrites == 2
MaxInflight == 1

Emails == {<<97, 64, 98, 46, 105, 111>>, <<99, 64, 100, 46, 105, 111>>}
Passwords == {<<112, 97, 115, 115, 119, 111, 114, 100>>, <<104, 117, 110, 116, 101, 114, 50, 50>>}

\* The accounts that get registered in this browser.
Accounts == {<<<<97, 64, 98, 46, 105, 111>>, <<112, 97, 115, 115, 119, 111, 114, 100>>>>}

\* Draws of random values in one run: one for each account's salt, two for
\* each transaction written.
MaxDraws == Cardinality(Accounts) + 2 * MaxWrites

\* The browser's state as one record, and its assignment to the variables.
Browser ==
  [localStorage |-> localStorage, user |-> user, encryptionKey |-> encryptionKey,
   authIsLoading |-> authIsLoading, pendingAuth |-> pendingAuth,
   transactions |-> transactions, isLoading |-> isLoading, error |-> error,
   inflight |-> inflight]

Render(b) ==
  /\ localStorage' = b.localStorage
  /\ user' = b.user
  /\ encryptionKey' = b.encryptionKey
  /\ authIsLoading' = b.authIsLoading
  /\ pendingAuth' = b.pendingAuth
  /\ transactions' = b.transactions
  /\ isLoading' = b.isLoading
  /\ error' = b.error
  /\ inflight' = b.inflight

\* Every hook in its initial state, after the mount effect of useAuthState
\* has restored the user it parsed from localStorage (or dropped the token
\* and the user, when the user does not parse).
Mounted(ls, stored, parsed) ==
  [localStorage |-> IF stored /\ ~parsed.ok THEN Unauthorized(ls) ELSE ls,
   user |-> IF stored /\ parsed.ok THEN parsed.val ELSE Null,
   encryptionKey |-> Null, authIsLoading |-> FALSE, pendingAuth |-> Null,
   transactions |-> <<>>, isLoading |-> FALSE, error |-> Null,
   inflight |-> <<>>]

\* A page load over the localStorage ls.
PageLoad(ls) ==
  Mounted(ls, <<"auth_token">> \in DOMAIN ls /\ <<"user">> \in DOMAIN ls,
          IF <<"user">> \in DOMAIN ls THEN UserOfJson(ls[<<"user">>]) ELSE Fail)

\* The response interceptor on a 401, and the page /login it loads.
Redirected(ls) == Mounted(Unauthorized(ls), FALSE, Fail)

\* err.message of a rejected request
RequestFailed(status) ==
  [message |-> "Request failed with status code", status |-> status]

\* fetchTransactions() of the render whose encryptionKey is key, up to its
\* await of GET /transactions: the response is on its way.  Without a
\* token the server answers 401.
fetchTransactions_request(b, key, database) ==
  IF key = Null
    THEN [b EXCEPT !.error = [message |-> "Encryption key not available"]]
  ELSE IF <<"auth_token">> \notin DOMAIN b.localStorage
    THEN [b EXCEPT !.isLoading = TRUE, !.error = Null,
                   !.inflight = Append(@, [status |-> 401, rows |-> <<>>, key |-> key])]
  ELSE [b EXCEPT !.isLoading = TRUE, !.error = Null,
                 !.inflight = Append(@,
                    [status |-> 200,
                     rows |-> srv_getTransactions(database,
                                b.localStorage[<<"auth_token">>].userId).body,
                     key |-> key])]

\* The requests that fetchTransactions_request sends.
fetchTransactions_wire(ls, key) ==
  IF key # Null
    THEN <<ApiRequest(ls, "GET", <<"/transactions">>, Null)>>
    ELSE <<>>

Init ==
  /\ db = EmptyDb
  /\ localStorage = <<>>
  /\ user = Null
  /\ encryptionKey = Null
  /\ authIsLoading = FALSE
  /\ pendingAuth = Null
  /\ transactions = <<>>
  /\ isLoading = FALSE
  /\ error = Null
  /\ inflight = <<>>
  /\ rng = 0
  /\ wire = <<>>
  /\ call = [op |-> "mount"]
  /\ registeredKey = <<>>

\* register() once the server has accepted: the token and the user are
\* stored, setUser, and initializeForUser has saved its salt (init); the
\* call waits for the key.
register_accepted(body, init) ==
  /\ Render([Browser EXCEPT !.localStorage = init.localStorage,
                            !.user = body.user,
                            !.authIsLoading = TRUE,
                            !.pendingAuth = [op |-> "register", key |-> init.key]])
  /\ rng' = rng + 1
  /\ registeredKey' = Append(registeredKey, init.key)

register_response(password, request, response) ==
  /\ wire' = <<request>>
  /\ call' = [op |-> "register", email |-> request.body.email,
              password |-> password, status |-> response.status]
  /\ db' = response.db
  /\ IF response.status # 201
       THEN /\ Render([Browser EXCEPT !.authIsLoading = FALSE])
            /\ UNCHANGED <<rng, registeredKey>>
       ELSE register_accepted(response.body,
              KeyManager_initializeForUser(
                setItem(setItem(localStorage, <<"auth_token">>, response.body.token),
                        <<"user">>, UserJson(response.body.user)),
                response.body.user.id, password, generateSalt(rng)))

\* useAuthState register(email, password), up to its await of the key.
register(email, password) ==
  /\ pendingAuth = Null
  /\ register_response(password,
       ApiRequest(localStorage, "POST", <<"/auth/register">>,
                  [email |-> email, password |-> password]),
       srv_register(db, [email |-> email, password |-> password]))

\* login() once the server has accepted: the token and the user are stored
\* (stored), setUser, and getKeyForUser has returned key or thrown.  A
\* throw ends the call with the user set and the key as it was.
login_accepted(body, stored, key) ==
  IF ~key.ok
    THEN Render([Browser EXCEPT !.localStorage = stored, !.user = body.user,
                                !.authIsLoading = FALSE])
    ELSE Render([Browser EXCEPT !.localStorage = stored, !.user = body.user,
                                !.authIsLoading = TRUE,
                                !.pendingAuth = [op |-> "login", key |-> key.val]])

login_stored(password, body, stored) ==
  login_accepted(body, stored,
                 KeyManager_getKeyForUser(stored, body.user.id, password))

\* A 401 leaves the page; any other refusal ends the call.
login_response(password, request, response) ==
  /\ wire' = <<request>>
  /\ call' = [op |-> "login", email |-> request.body.email,
              password |-> password, status |-> response.status]
  /\ UNCHANGED <<db, rng, registeredKey>>
  /\ IF response.status = 401 THEN Render(Redirected(localStorage))
     ELSE IF response.status # 200
       THEN Render([Browser EXCEPT !.authIsLoading = FALSE])
     ELSE login_stored(password, response.body,
            setItem(setItem(localStorage, <<"auth_token">>, response.body.token),
                    <<"user">>, UserJson(response.body.user)))

\* useAuthState login(email, password), up to its await of the key.
login(email, password) ==
  /\ pendingAuth = Null
  /\ login_response(password,
       ApiRequest(localStorage, "POST", <<"/auth/login">>,
                  [email |-> email, password |-> password]),
       srv_login(db, [email |-> email, password |-> password]))

\* The rest of register() or login() once deriveKey has resolved:
\* setEncryptionKey(key), on which the effect of useTransactions runs
\* fetchTransactions() with the new key, and setIsLoading(false).
deriveKey_resolved ==
  /\ pendingAuth # Null
  /\ Len(inflight) < MaxInflight
  /\ Render(fetchTransactions_request(
              [Browser EXCEPT !.pendingAuth = Null, !.authIsLoading = FALSE,
                              !.encryptionKey = pendingAuth.key],
              pendingAuth.key, db))
  /\ wire' = fetchTransactions_wire(localStorage, pendingAuth.key)
  /\ call' = [op |-> pendingAuth.op, resolved |-> TRUE]
  /\ UNCHANGED <<db, rng, registeredKey>>

\* useAuthState logout()
logout ==
  /\ Render([Browser EXCEPT
               !.localStorage =
                 Unauthorized(IF user # Null
                                THEN KeyManager_clearUserData(localStorage, user.id)
                                ELSE localStorage),
               !.user = Null, !.encryptionKey = Null])
  /\ wire' = <<>>
  /\ call' = [op |-> "logout"]
  /\ UNCHANGED <<db, rng, registeredKey>>

\* The page is loaded again.
mount ==
  /\ Render(PageLoad(localStorage))
  /\ wire' = <<>>
  /\ call' = [op |-> "mount"]
  /\ UNCHANGED <<db, rng, registeredKey>>

\* What the transaction form can submit.
TransactionInputs ==
  {[amount |-> 12, description |-> <<116, 101, 97>>, category |-> <<70, 111, 111, 100>>,
    merchant |-> Undefined, date |-> <<50, 48, 50, 52, 45, 48, 49, 45, 48, 53>>],
   [amount |-> 250, description |-> <<114, 34, 55357, 233>>, category |-> <<84, 114, 97, 118, 101, 108>>,
    merchant |-> <<75, 76, 77>>, date |-> <<50, 48, 50, 52, 45, 48, 49, 45, 48, 50>>]}

\* The decrypted transaction fetchTransactions builds from the row tx, or
\* Fail when decryptTransaction has thrown.
DecryptedRow(tx, decryptedData) ==
  IF decryptedData.ok
    THEN Ok([id |-> tx.id, data |-> decryptedData.val, date |-> tx.date,
             created_at |-> tx.created_at, updated_at |-> tx.updated_at])
    ELSE Fail

DecryptRow(tx, key) ==
  DecryptedRow(tx, decryptTransaction(tx.encrypted_data, tx.iv, key))

\* The orders in which n promises can settle: order[j] is the place in the
\* batch of the promise that settles j-th.
Orders(n) == {order \in [1..n -> 1..n] : \A i, j \in 1..n : i # j => order[i] # order[j]}

\* A Promise.all that lists the values in the order of their completion.
PromiseAll_byCompletion(settled, order) ==
  IF \A j \in 1..Len(settled) : settled[order[j]].ok
    THEN Ok([j \in 1..Len(settled) |-> settled[order[j]].val])
    ELSE Fail

\* Promise.all over promises that settle as settled, in the order order:
\* it rejects when one promise has rejected (each rejection carries the
\* same message), and else resolves with the values in the places of
\* their promises.
PromiseAll(settled, order) ==
  IF \A j \in 1..Len(settled) : settled[order[j]].ok
    THEN Ok([i \in 1..Len(settled) |-> settled[i].val])
    ELSE Fail

\* The end of a fetchTransactions(): only a list decrypted in full reaches
\* setTransactions.
fetchTransactions_settled(b, decrypted) ==
  IF decrypted.ok
    THEN [b EXCEPT !.isLoading = FALSE, !.transactions = decrypted.val]
    ELSE [b EXCEPT !.isLoading = FALSE,
                   !.error = [message |-> "Failed to decrypt transaction data"]]

\* The rest of the fetchTransactions() whose response is number k, the
\* decryptions of its rows completing in the order order.
fetchTransactions_response(b, k, order) ==
  IF b.inflight[k].status = 401 THEN Redirected(b.localStorage)
  ELSE fetchTransactions_settled(
    [b EXCEPT !.inflight = SubSeq(@, 1, k - 1) \o SubSeq(@, k + 1, Len(@))],
    PromiseAll([i \in 1..Len(b.inflight[k].rows) |->
                  DecryptRow(b.inflight[k].rows[i], b.inflight[k].key)],
               order))

\* useTransactions fetchTransactions(), called by hand, up to the response
fetchTransactions ==
  /\ Len(inflight) < MaxInflight
  /\ Render(fetchTransactions_request(Browser, encryptionKey, db))
  /\ wire' = fetchTransactions_wire(localStorage, encryptionKey)
  /\ call' = [op |-> "fetchTransactions", settled |-> FALSE]
  /\ UNCHANGED <<db, rng, registeredKey>>

\* The response number k is decrypted (responses settle in any order).
fetchTransactions_settle(k, order) ==
  /\ k \in 1..Len(inflight)
  /\ Render(fetchTransactions_response(Browser, k, order))
  /\ wire' = <<>>
  /\ call' = [op |-> "fetchTransactions", settled |-> TRUE,
              status |-> inflight[k].status,
              rows |-> inflight[k].rows, key |-> inflight[k].key,
              order |-> order]
  /\ UNCHANGED <<db, rng, registeredKey>>

\* The body of POST /transactions and PUT /transactions/:id from the
\* result of encryptTransaction.
TransactionBodyOf(input, encrypted) ==
  [encrypted_data |-> encrypted.encrypted_data, iv |-> encrypted.iv,
   amount_encrypted |-> encrypted.amount_encrypted,
   category |-> input.category, date |-> input.date]

\* r counts the draws of random values made before.
TransactionBody(input, key, r) ==
  TransactionBodyOf(input,
    encryptTransaction(input, key, RandomValues(IV_LENGTH, r),
                       RandomValues(IV_LENGTH, r + 1)))

\* The server behind authMiddleware: 401 without a token.
Authenticated(request, response) ==
  IF request.token = Null THEN Response(db, 401, Null) ELSE response

\* createTransaction and updateTransaction after the encryption: the
\* request, then on success the refresh, else setError(err.message).
SendTransaction(request, response, success) ==
  /\ wire' = <<request>> \o (IF response.status = success
                               THEN fetchTransactions_wire(localStorage, encryptionKey)
                               ELSE <<>>)
  /\ db' = response.db
  /\ rng' = rng + 2
  /\ UNCHANGED registeredKey
  /\ IF response.status = 401 THEN Render(Redirected(localStorage))
     ELSE IF response.status # success
       THEN Render([Browser EXCEPT !.isLoading = FALSE,
                                   !.error = RequestFailed(response.status)])
     ELSE Render(fetchTransactions_request(Browser, encryptionKey, response.db))

createTransaction_send(input, request, response) ==
  /\ SendTransaction(request, response, 201)
  /\ call' = [op |-> "createTransaction", input |-> input,
              status |-> response.status]

createTransaction_request(input, request) ==
  createTransaction_send(input, request,
    Authenticated(request,
                  srv_createTransaction(db, request.token.userId, request.body)))

\* useTransactions createTransaction(input)
createTransaction(input) ==
  /\ encryptionKey # Null
  /\ Len(inflight) < MaxInflight
  /\ db.clock < MaxWrites
  /\ rng + 2 <= MaxDraws
  /\ createTransaction_request(input,
       ApiRequest(localStorage, "POST", <<"/transactions">>,
                  TransactionBody(input, encryptionKey, rng)))

updateTransaction_send(id, input, request, response) ==
  /\ SendTransaction(request, response, 200)
  /\ call' = [op |-> "updateTransaction", id |-> id, input |-> input,
              status |-> response.status]

updateTransaction_request(id, input, request) ==
  updateTransaction_send(id, input, request,
    Authenticated(request,
                  srv_updateTransaction(db, request.token.userId, id, request.body)))

\* useTransactions updateTransaction(id, input)
updateTransaction(id, input) ==
  /\ encryptionKey # Null
  /\ Len(inflight) < MaxInflight
  /\ db.clock < MaxWrites
  /\ rng + 2 <= MaxDraws
  /\ updateTransaction_request(id, input,
       ApiRequest(localStorage, "PUT", <<"/transactions", id>>,
                  TransactionBody(input, encryptionKey, rng)))

deleteTransaction_send(id, request, response) ==
  /\ wire' = <<request>>
  /\ call' = [op |-> "deleteTransaction", id |-> id, status |-> response.status]
  /\ db' = response.db
  /\ UNCHANGED <<rng, registeredKey>>
  /\ IF response.status = 401 THEN Render(Redirected(localStorage))
     ELSE IF response.status # 200
       THEN Render([Browser EXCEPT !.isLoading = FALSE,
                                   !.error = RequestFailed(response.status)])
     ELSE Render([Browser EXCEPT
                    !.isLoading = FALSE, !.error = Null,
                    !.transactions = SelectSeq(@, LAMBDA tx : tx.id # id)])

deleteTransaction_request(id, request) ==
  deleteTransaction_send(id, request,
    Authenticated(request, srv_deleteTransaction(db, request.token.userId, id)))

\* useTransactions deleteTransaction(id)
deleteTransaction(id) ==
  deleteTransaction_request(id,
    ApiRequest(localStorage, "DELETE", <<"/transactions", id>>, Null))

\* The transactions the page lists.
Listed == {transactions[i].id : i \in 1..Len(transactions)}

(***************************************************************************)
(* Requests that reach the server from elsewhere than this browser's       *)
(* hooks: another device or script holding a token of user userId.         *)
(***************************************************************************)
UserIds == {db.users[i].id : i \in 1..Len(db.users)}

\* A key of another device, and a transaction body encrypted under it.
ForeignKey == deriveKey(<<112, 97, 115, 115, 119, 111, 114, 100>>, [i \in 1..SALT_LENGTH |-> 9])
ForeignBodies ==
  {TransactionBody(CHOOSE t \in TransactionInputs : t.amount = 12, ForeignKey, 100)}

\* POST /transactions
post_transaction(userId, body) ==
  LET response == srv_createTransaction(db, userId, body)
  IN /\ db.clock < MaxWrites
     /\ db' = response.db
     /\ call' = [op |-> "POST /transactions", userId |-> userId,
                 status |-> response.status]
     /\ wire' = <<>>
     /\ UNCHANGED <<localStorage, user, encryptionKey, authIsLoading, pendingAuth,
                    transactions, isLoading, error, inflight, rng, registeredKey>>

\* Bodies of POST /anomalies: about a transaction or about none, and one
\* that leaves the severity out.
AnomalyBodies ==
  {[transaction_id |-> id, anomaly_type |-> "unusual_amount", severity |-> "low",
    description |-> <<102, 108, 97, 103, 103, 101, 100>>] : id \in 0..db.seq.transactions}
  \cup {[transaction_id |-> 0, anomaly_type |-> "unusual_amount",
         description |-> <<102, 108, 97, 103, 103, 101, 100>>],
        [transaction_id |-> 0, anomaly_type |-> "normal", severity |-> "critical",
         description |-> <<102, 108, 97, 103, 103, 101, 100>>]}

\* POST /anomalies
post_anomaly(userId, body) ==
  LET response == srv_createAnomaly(db, userId, body)
  IN /\ db.clock < MaxWrites
     /\ db' = response.db
     /\ call' = [op |-> "POST /anomalies", userId |-> userId,
                 status |-> response.status]
     /\ wire' = <<>>
     /\ UNCHANGED <<localStorage, user, encryptionKey, authIsLoading, pendingAuth,
                    transactions, isLoading, error, inflight, rng, registeredKey>>

\* PATCH /anomalies/:id/acknowledge
patch_acknowledge(userId, anomalyId) ==
  LET response == srv_acknowledgeAnomaly(db, userId, anomalyId)
  IN /\ db' = response.db
     /\ call' = [op |-> "PATCH /anomalies/:id/acknowledge", userId |-> userId,
                 id |-> anomalyId, status |-> response.status,
                 again |-> \E a \in Range(db.anomalies) :
                             a.id = anomalyId /\ a.acknowledged]
     /\ wire' = <<>>
     /\ UNCHANGED <<localStorage, user, encryptionKey, authIsLoading, pendingAuth,
                    transactions, isLoading, error, inflight, rng, registeredKey>>

\* Decrypted histories handed to the batch scan: nine amounts of 10 and
\* one of 100 that belongs to transaction id, ten equal amounts, and a
\* history too short to be scanned.
Histories ==
  {[i \in 1..10 |-> [id |-> id, amount |-> IF i = 10 THEN 100 ELSE 10]]
     : id \in 1..db.seq.transactions}
  \cup {[i \in 1..10 |-> [id |-> 0, amount |-> 10]],
        [i \in 1..9 |-> [id |-> 0, amount |-> IF i = 9 THEN 100 ELSE 10]]}

\* AnomalyDetector.batchAnalyze(userId, history)
batchAnalyze(userId, history) ==
  /\ db.clock < MaxWrites
  /\ db' = AnomalyDetector_batchAnalyze(db, userId, history)
  /\ call' = [op |-> "batchAnalyze", userId |-> userId, history |-> history]
  /\ wire' = <<>>
  /\ UNCHANGED <<localStorage, user, encryptionKey, authIsLoading, pendingAuth,
                 transactions, isLoading, error, inflight, rng, registeredKey>>

Next ==
  \/ \E account \in Accounts : register(account[1], account[2])
  \/ \E email \in Emails, password \in Passwords : login(email, password)
  \/ deriveKey_resolved
  \/ logout
  \/ mount
  \/ fetchTransactions
  \/ \E k \in 1..Len(inflight) :
       \E order \in Orders(Len(inflight[k].rows)) : fetchTransactions_settle(k, order)
  \/ \E input \in TransactionInputs : createTransaction(input)
  \/ \E id \in Listed, input \in TransactionInputs : updateTransaction(id, input)
  \/ \E id \in Listed : deleteTransaction(id)
  \/ \E userId \in UserIds, body \in ForeignBodies : post_transaction(userId, body)
  \/ \E userId \in UserIds, body \in AnomalyBodies : post_anomaly(userId, body)
  \/ \E userId \in UserIds, id \in 1..db.seq.anomalies : patch_acknowledge(userId, id)
  \/ \E userId \in UserIds, history \in Histories : batchAnalyze(userId, history)

Spec == Init /\ [][Next]_vars

(***************************************************************************)
(* Properties of the hooks and of the stores, under Spec.                  *)
(***************************************************************************)
IsInfix(p, s) == \E i \in 0..(Len(s) - Len(p)) : SubSeq(s, i + 1, i + Len(p)) = p

\* The rows of a batch as fetchTransactions decrypts them with key.
DecryptedBatch(rows, key) == [i \in 1..Len(rows) |-> DecryptRow(rows[i], key)]

\* The transactions of the decrypted batch d that did decrypt.
Delivered(d) ==
  [i \in 1..Len(SelectSeq(d, LAMBDA r : r.ok)) |-> SelectSeq(d, LAMBDA r : r.ok)[i].val]

\* C1: when a fetchTransactions has settled on a batch in which one record
\* failed to decrypt, the transactions list holds every record of the batch
\* that did decrypt.
C1_BatchIsolation ==
  (call.op = "fetchTransactions" /\ call.settled
     /\ \E i \in 1..Len(call.rows) : ~DecryptRow(call.rows[i], call.key).ok)
  => transactions = Delivered(DecryptedBatch(call.rows, call.key))

\* C5: a login that the server has accepted and that has ended leaves
\* encryptionKey equal to the key derived when the user registered.
C5_KeyRecomputedOnLogin ==
  (call.op = "login" /\ pendingAuth = Null /\ user # Null
     /\ (IF "status" \in DOMAIN call THEN call.status = 200 ELSE call.resolved))
  => encryptionKey = registeredKey[user.id]

\* The text fields of a request body or of a stored row.
Ciphertexts(r) == {r.encrypted_data, r.iv, r.amount_encrypted}

\* The plaintext of the transaction t shows in the Base64 text c: the text
\* of its description or merchant, or its bytes in what c decodes to.
ShowsPlaintext(t, c) ==
  \E secret \in {t.description} \cup (IF t.merchant = Undefined THEN {} ELSE {t.merchant}) :
    \/ IsInfix(secret, c)
    \/ base642ab(c).ok /\ IsInfix(str2ab(secret), base642ab(c).val)

\* The transaction half of C6 on its own.
C6_TransactionCiphertextOnly ==
  (call.op \in {"createTransaction", "updateTransaction"}) =>
    /\ DOMAIN wire[1].body
         = {"encrypted_data", "iv", "amount_encrypted", "category", "date"}
    /\ \A c \in Ciphertexts(wire[1].body) : ~ShowsPlaintext(call.input, c)

\* C6: nothing stored by the server holds plaintext of a transaction: a
\* transaction sent by createTransaction or updateTransaction carries
\* category and date and three ciphertexts that do not show the
\* description or the merchant, and no stored Finding's description spells
\* out the amount of a transaction of the history that was scanned.
C6_NoPlaintextStored ==
  /\ (call.op \in {"createTransaction", "updateTransaction"}) =>
       /\ DOMAIN wire[1].body
            = {"encrypted_data", "iv", "amount_encrypted", "category", "date"}
       /\ \A c \in Ciphertexts(wire[1].body) : ~ShowsPlaintext(call.input, c)
  /\ (call.op = "batchAnalyze") =>
       \A a \in Range(db.anomalies) : \A i \in 1..Len(call.history) :
         ~IsInfix(ToFixed2(call.history[i].amount), a.description)

\* The keys this browser holds or has derived, and the salts of the keys
\* and of the salt store, as bytes and as Base64 text.
DerivedKeys ==
  Range(registeredKey)
    \cup (IF encryptionKey = Null THEN {} ELSE {encryptionKey})
    \cup (IF pendingAuth = Null THEN {} ELSE {pendingAuth.key})
    \cup {inflight[i].key : i \in 1..Len(inflight)}

\* What a key would be as text: its raw bytes, or their Base64 form.
KeyTexts ==
  UNION {{k.material \o k.salt, ab2base64(k.material \o k.salt)} : k \in DerivedKeys}

\* The salts of the derived keys and of the salt store, as bytes and as text.
SaltTexts ==
  UNION {{k.salt, ab2base64(k.salt)} : k \in DerivedKeys}
    \cup {localStorage[x] : x \in {y \in DOMAIN localStorage : y[1] = "salt_"}}

\* The localStorage keys the hooks and the salt store write.
StorageKeys == {<<"auth_token">>, <<"user">>} \cup {<<"salt_", u>> : u \in 1..db.seq.users}

\* C7: no entry of localStorage is a derived key, a salt is stored under
\* salt_<userId> only, and no field of a request this browser sends (its
\* token included) is a derived key or a salt.
C7_SecretLocality ==
  /\ DOMAIN localStorage \subseteq StorageKeys
  /\ \A k \in DerivedKeys :
       /\ <<"auth_token">> \in DOMAIN localStorage => localStorage[<<"auth_token">>] # k
       /\ \A i \in 1..Len(wire) : wire[i].token # k
  /\ \A x \in DOMAIN localStorage \ {<<"auth_token">>} :
       /\ \A t \in KeyTexts : localStorage[x] # t
       /\ x[1] # "salt_" => \A t \in SaltTexts : localStorage[x] # t
  /\ \A i \in 1..Len(wire) :
       wire[i].body # Null =>
         \A f \in DOMAIN wire[i].body : \A t \in KeyTexts \cup SaltTexts :
           wire[i].body[f] # t

\* A session that holds a key, has stored its salt and has sent a request
\* carrying ciphertext.
C7_Witness ==
  /\ encryptionKey # Null /\ user # Null
  /\ <<"salt_", user.id>> \in DOMAIN localStorage
  /\ call.op = "createTransaction" /\ call.status = 201
  /\ Len(wire) = 2

\* C8: a Finding that is acknowledged and still exists after a step is
\* acknowledged after the step.
C8_OneWay ==
  [][\A a \in Range(db.anomalies) : \A b \in Range(db'.anomalies) :
       (a.acknowledged /\ b.id = a.id) => b.acknowledged]_vars

\* A store holding an acknowledged Finding to which a later request has
\* added a new Finding.
C8_Witness ==
  /\ call.op = "POST /anomalies" /\ call.status = 201
  /\ \E a, b \in Range(db.anomalies) : a.acknowledged /\ ~b.acknowledged /\ a.id < b.id

\* C9: acknowledging a Finding of one's own that is already acknowledged
\* answers 200, AnomalyModel.acknowledge returns true, and the store
\* after the step equals the store before it.
C9_AcknowledgeIdempotent ==
  [][(/\ call'.op = "PATCH /anomalies/:id/acknowledge"
      /\ call'.again
      /\ AnomalyModel_findById(db, call'.id).user_id = call'.userId)
     => /\ call'.status = 200
        /\ AnomalyModel_acknowledge(db, call'.id).changes > 0
        /\ AnomalyModel_acknowledge(db, call'.id).db = db
        /\ db' = db]_vars

\* A second acknowledge of the same Finding by its owner has been answered.
C9_Witness ==
  /\ call.op = "PATCH /anomalies/:id/acknowledge"
  /\ call.again
  /\ AnomalyModel_findById(db, call.id).user_id = call.userId

\* C10: every Finding in the store before a step is in the store after it
\* (no operation of the system deletes a user account).
C10_FindingNeverDeleted ==
  [][\A a \in Range(db.anomalies) : \E b \in Range(db'.anomalies) : b.id = a.id]_vars

(***************************************************************************)
(* The encryption utilities on their own: SpecCrypto calls encryptData,    *)
(* decryptData, encryptTransaction and decryptTransaction on bounded       *)
(* inputs, one encryption and one decryption of its result in each         *)
(* behaviour; call holds the last call, its arguments and its result.      *)
(***************************************************************************)
MaxLen == 2

\* Code units of the plaintexts: a, e-acute, U+FEFF, and the two halves of
\* the surrogate pair of U+1F600.
Units == {97, 233, 65279, 55357, 56832}

Plaintexts == UNION {[1..n -> Units] : n \in 0..MaxLen}

\* Three keys: two passwords under one salt, one password under two salts.
\* The cipher is ideal: a tag made for one key is never the tag of another,
\* so the passwords and the salts differ in every byte.
CryptoKeys ==
  {deriveKey(<<112, 119>>, generateSalt(1)), deriveKey(<<107, 101>>, generateSalt(1)),
   deriveKey(<<112, 119>>, generateSalt(2))}

Draws == {3, 4}

\* The Base64 text s with the character at position i replaced by another.
Tampered(s, i) ==
  [s EXCEPT ![i] = IF @ = 61 THEN 65 ELSE B64Char((B64Value(@) + 1) % 64)]

\* The envelopes handed to decryptData in place of the envelope e: e, and
\* e with one character of its ciphertext or of its IV replaced.
Handed(e) ==
  {e} \cup {[e EXCEPT !.encryptedData = Tampered(@, i)] : i \in 1..Len(e.encryptedData)}
      \cup {[e EXCEPT !.iv = Tampered(@, i)] : i \in 1..Len(e.iv)}

Idle ==
  UNCHANGED <<db, localStorage, user, encryptionKey, authIsLoading, pendingAuth,
              transactions, isLoading, error, inflight, rng, wire, registeredKey>>

encryptData_call(data, key, r) ==
  /\ call.op = "mount"
  /\ call' = [op |-> "encryptData", data |-> data, key |-> key,
              envelope |-> encryptData(data, key, RandomValues(IV_LENGTH, r))]
  /\ Idle

decryptData_call(key) ==
  /\ call.op = "encryptData"
  /\ \E given \in Handed(call.envelope) :
       call' = [op |-> "decryptData", data |-> call.data, key |-> call.key,
                envelope |-> call.envelope, given |-> given, usedKey |-> key,
                result |-> decryptData(given.encryptedData, given.iv, key)]
  /\ Idle

\* Transactions that break the preconditions of the core functions: an
\* amount of 0, and an empty description.
InvalidInputs ==
  {[amount |-> 0, description |-> <<116, 101, 97>>, category |-> <<70, 111, 111, 100>>,
    merchant |-> Undefined, date |-> <<50, 48, 50, 52, 45, 48, 49, 45, 48, 53>>],
   [amount |-> 12, description |-> <<>>, category |-> <<70, 111, 111, 100>>,
    merchant |-> Undefined, date |-> <<50, 48, 50, 52, 45, 48, 49, 45, 48, 53>>]}

encryptTransaction_call(t, key, r) ==
  /\ call.op = "mount"
  /\ call' = [op |-> "encryptTransaction", transaction |-> t, key |-> key,
              encrypted |-> encryptTransaction(t, key, RandomValues(IV_LENGTH, r),
                                               RandomValues(IV_LENGTH, r + 1))]
  /\ Idle

decryptTransaction_call(key) ==
  /\ call.op = "encryptTransaction"
  /\ call' = [op |-> "decryptTransaction", transaction |-> call.transaction,
              key |-> call.key, usedKey |-> key,
              result |-> decryptTransaction(call.encrypted.encrypted_data,
                                            call.encrypted.iv, key)]
  /\ Idle

NextCrypto ==
  \/ \E data \in Plaintexts, key \in CryptoKeys, r \in Draws : encryptData_call(data, key, r)
  \/ \E key \in CryptoKeys : decryptData_call(key)
  \/ \E t \in TransactionInputs, key \in CryptoKeys, r \in Draws :
       encryptTransaction_call(t, key, r)
  \/ \E t \in InvalidInputs, key \in CryptoKeys, r \in Draws :
       encryptTransaction_call(t, key, r)
  \/ \E key \in CryptoKeys : decryptTransaction_call(key)

SpecCrypto == Init /\ [][NextCrypto]_vars

\* decryptData was handed the envelope that encryptData produced, with the
\* encrypting key.
Honest == call.given = call.envelope /\ call.usedKey = call.key

\* C2: decryptData of what encryptData(M, k) produced, with k, returns M,
\* and decryptTransaction of what encryptTransaction(t, k) produced, with
\* k, returns t.
C2_RoundTrip ==
  /\ (call.op = "decryptData" /\ Honest) => call.result = Ok(call.data)
  /\ (call.op = "decryptTransaction" /\ call.usedKey = call.key)
       => call.result = Ok(TransactionObject(call.transaction))

\* The transaction half of C2 on its own.
C2_TransactionRoundTrip ==
  (call.op = "decryptTransaction" /\ call.usedKey = call.key)
    => call.result = Ok(TransactionObject(call.transaction))

\* C3 as stated: decryptData with another key, or with a ciphertext or IV
\* text that differs from the envelope in some position, ends in an error.
C3_AnyPosition ==
  (call.op = "decryptData" /\ ~Honest) => ~call.result.ok

\* C3: decryptData with another key, or with a ciphertext or IV whose
\* decoded bytes differ from those of the envelope, ends in an error; and
\* whenever decryptData returns, it returns what it returns on the
\* envelope itself.
C3_FailsClosed ==
  (call.op = "decryptData") =>
    /\ (\/ call.usedKey # call.key
        \/ base642ab(call.given.encryptedData) # base642ab(call.envelope.encryptedData)
        \/ base642ab(call.given.iv) # base642ab(call.envelope.iv))
       => ~call.result.ok
    /\ call.result.ok
       => call.result = decryptData(call.envelope.encryptedData, call.envelope.iv, call.key)

\* decryptData has rejected an envelope with one character replaced, under
\* the encrypting key.
C3_Witness ==
  /\ call.op = "decryptData" /\ call.usedKey = call.key
  /\ call.given # call.envelope
  /\ ~call.result.ok
  /\ Len(call.data) > 0

(***************************************************************************)
(* The key manager on its own: SpecKeyManager calls initializeForUser,     *)
(* getKeyForUser and clearUserData for two users.  registeredKey[u] is the *)
(* password and the key of the last initializeForUser(u, p) that no        *)
(* clearUserData(u) has followed, or Null.                                 *)
(***************************************************************************)
MaxSalts == 3

KeyUsers == {1, 2}

\* Passwords as code units: "p", "q", and the two halves of a surrogate
\* pair, each on its own.
KeyPasswords == {<<112>>, <<113>>, <<55357>>, <<56832>>}

InitKeyManager ==
  /\ db = EmptyDb
  /\ localStorage = <<>>
  /\ user = Null
  /\ encryptionKey = Null
  /\ authIsLoading = FALSE
  /\ pendingAuth = Null
  /\ transactions = <<>>
  /\ isLoading = FALSE
  /\ error = Null
  /\ inflight = <<>>
  /\ rng = 0
  /\ wire = <<>>
  /\ call = [op |-> "mount"]
  /\ registeredKey = [u \in KeyUsers |-> Null]

KeyManagerIdle ==
  UNCHANGED <<db, user, encryptionKey, authIsLoading, pendingAuth,
              transactions, isLoading, error, inflight, wire>>

initializeForUser_returned(userId, password, init) ==
  /\ localStorage' = init.localStorage
  /\ registeredKey' = [registeredKey EXCEPT
                         ![userId] = [password |-> password, key |-> init.key]]
  /\ call' = [op |-> "initializeForUser", userId |-> userId,
              password |-> password, result |-> Ok(init.key)]

initializeForUser_call(userId, password) ==
  /\ rng < MaxSalts
  /\ rng' = rng + 1
  /\ initializeForUser_returned(userId, password,
       KeyManager_initializeForUser(localStorage, userId, password, generateSalt(rng)))
  /\ KeyManagerIdle

getKeyForUser_call(userId, password) ==
  /\ call' = [op |-> "getKeyForUser", userId |-> userId, password |-> password,
              result |-> KeyManager_getKeyForUser(localStorage, userId, password)]
  /\ UNCHANGED <<localStorage, registeredKey, rng>>
  /\ KeyManagerIdle

clearUserData_call(userId) ==
  /\ localStorage' = KeyManager_clearUserData(localStorage, userId)
  /\ registeredKey' = [registeredKey EXCEPT ![userId] = Null]
  /\ call' = [op |-> "clearUserData", userId |-> userId]
  /\ UNCHANGED rng
  /\ KeyManagerIdle

NextKeyManager ==
  \/ \E u \in KeyUsers, p \in KeyPasswords : initializeForUser_call(u, p)
  \/ \E u \in KeyUsers, p \in KeyPasswords : getKeyForUser_call(u, p)
  \/ \E u \in KeyUsers : clearUserData_call(u)

SpecKeyManager == InitKeyManager /\ [][NextKeyManager]_vars

\* getKeyForUser(u, p) has returned while the key of an initializeForUser
\* of u is registered.
Registered ==
  /\ call.op = "getKeyForUser"
  /\ registeredKey[call.userId] # Null
  /\ call.result.ok

\* The same password gives the registered key again.
Deterministic ==
  (call.op = "getKeyForUser" /\ registeredKey[call.userId] # Null
     /\ call.password = registeredKey[call.userId].password)
  => call.result = Ok(registeredKey[call.userId].key)

Severities == {"low", "medium", "high"}

AnomalousTypes ==
  {"unusual_amount", "unusual_frequency", "large_transaction", "spending_spike",
   "unusual_category_amount"}

InformationalTypes == {"normal", "insufficient_data", "new_category"}

\* C11: every persisted Finding has a severity of low, medium or high and an
\* anomalous type; an informational result (normal, insufficient_data,
\* new_category) is never persisted, because the create boundary rejects
\* unrecognized values.
C11_ClosedEnumerations ==
  \A finding \in Range(db.anomalies) :
    /\ finding.severity \in Severities
    /\ finding.anomaly_type \in AnomalousTypes
    /\ finding.anomaly_type \notin InformationalTypes

(***************************************************************************)
(* The detector alone: one call of one function of AnomalyDetector per     *)
(* behaviour, its arguments and its result recorded in call.  Amounts,     *)
(* counts and totals are whole numbers, a historical average is a number   *)
(* of quarters.                                                            *)
(***************************************************************************)

\* the largest historical value and the largest candidate amount
MaxValue == 4
MaxAmount == 12

\* the longest sequence handed to percentile
MaxCount == 25

\* the non-decreasing sequences of the given length over lo..MaxValue
Ascending(length, lo) ==
  {h \in [1..length -> lo..MaxValue] : \A i \in 1..(length - 1) : h[i] <= h[i + 1]}

ValueLists == Ascending(5, 1) \cup Ascending(3, 0) \cup {<<>>, <<1, 3>>, <<10, 20, 30, 40>>, Typical}

mean_call(values) ==
  /\ call.op = "mount"
  /\ call' = [op |-> "mean", values |-> values, result |-> mean(Numbers(values))]
  /\ Idle

standardDeviation_call(values) ==
  /\ call.op = "mount"
  /\ call' = [op |-> "standardDeviation", values |-> values,
              result |-> standardDeviation(Numbers(values))]
  /\ Idle

zScore_call(value, avg, stdDev) ==
  /\ call.op = "mount"
  /\ call' = [op |-> "zScore", value |-> value, mean |-> avg, stdDev |-> stdDev,
              result |-> zScore(NumberOf(value), NumberOf(avg), NumberOf(stdDev))]
  /\ Idle

AmountCalls ==
  ((0..MaxAmount) \X (Ascending(5, 1) \cup {<<>>, <<10, 20, 30, 40>>}))
    \cup ({10, 500} \X {Typical})

detectAmountAnomaly_call(amount, historicalAmounts) ==
  /\ call.op = "mount"
  /\ call' = [op |-> "detectAmountAnomaly", amount |-> amount,
              historicalAmounts |-> historicalAmounts,
              result |-> detectAmountAnomaly(NumberOf(amount), Numbers(historicalAmounts),
                                             Halves(5))]
  /\ Idle

Food == <<70, 111, 111, 100>>
Rent == <<82, 101, 110, 116>>

Entries(amounts, category) ==
  [i \in 1..Len(amounts) |-> [amount |-> amounts[i], category |-> category]]

\* Histories of 0, 4, 5, 9, 10 and 12 transactions, with and without categories
AnalyzedHistories ==
  {<<>>,
   Entries(<<2, 2, 2, 3>>, Food),
   Entries(<<2, 2, 2, 2, 3>>, Food),
   Entries(<<2, 2, 2, 2, 3>>, <<>>),
   Entries(<<2, 2, 2, 2, 3>>, Food) \o Entries(<<50, 60, 1, 90>>, Rent),
   Entries(<<1, 1, 1, 1, 1, 1, 1, 1, 1, 100>>, Null),
   Entries(<<2, 2, 2, 2, 3>>, Food) \o Entries(<<1, 1, 1, 1, 100>>, Null),
   Entries(Typical, Food),
   Entries([i \in 1..12 |-> 13 - i], Rent)}

AnalyzedAmounts == {1, 2, 3, 5, 7, 30, 500}

WithNumbers(entries) ==
  [i \in 1..Len(entries) |-> [entries[i] EXCEPT !.amount = NumberOf(@)]]

analyzeTransaction_call(amount, category, history) ==
  /\ call.op = "mount"
  /\ call' = [op |-> "analyzeTransaction", amount |-> amount, category |-> category,
              history |-> history,
              result |-> analyzeTransaction([amount |-> NumberOf(amount),
                                             category |-> category],
                                            WithNumbers(history))]
  /\ Idle

\* The ascending sequences handed to percentile: 10, 20, .. and 5, 5, ..
SortedLists ==
  {[i \in 1..n |-> 10 * i] : n \in 0..MaxCount} \cup {[i \in 1..n |-> 5] : n \in 1..3}

percentile_call(sortedValues, p) ==
  /\ call.op = "mount"
  /\ call' = [op |-> "percentile", sortedValues |-> sortedValues, percentile |-> p,
              result |-> percentile(Numbers(sortedValues), NumberOf(p))]
  /\ Idle

\* historicalAverage is quarters / 4
detectFrequencyAnomaly_call(category, recentCount, quarters) ==
  /\ call.op = "mount"
  /\ call' = [op |-> "detectFrequencyAnomaly", category |-> category,
              recentCount |-> recentCount, quarters |-> quarters,
              result |-> detectFrequencyAnomaly(category, NumberOf(recentCount),
                                                Over(NumberOf(quarters), NumberOf(4)),
                                                NumberOf(2))]
  /\ Idle

\* Period totals: every list of 3 totals up to MaxValue in non-decreasing
\* order, and lists of 0, 2, 4 and 7 totals
PeriodLists ==
  Ascending(3, 0) \cup {<<>>, <<1, 3>>, <<10, 20, 30, 40>>, <<1, 2, 3, 4, 5, 6, 6>>}

detectSpendingSpike_call(periodTotal, historicalPeriodAverages) ==
  /\ call.op = "mount"
  /\ call' = [op |-> "detectSpendingSpike", periodTotal |-> periodTotal,
              historicalPeriodAverages |-> historicalPeriodAverages,
              result |-> detectSpendingSpike(NumberOf(periodTotal),
                                             Numbers(historicalPeriodAverages),
                                             Halves(3))]
  /\ Idle

NextDetector ==
  \/ \E values \in ValueLists : mean_call(values)
  \/ \E values \in ValueLists : standardDeviation_call(values)
  \/ \E value \in -2..2, avg \in -2..2, stdDev \in 0..2 : zScore_call(value, avg, stdDev)
  \/ \E c \in AmountCalls : detectAmountAnomaly_call(c[1], c[2])
  \/ \E sortedValues \in SortedLists, p \in 0..100 : percentile_call(sortedValues, p)
  \/ \E periodTotal \in 0..MaxAmount, totals \in PeriodLists :
       detectSpendingSpike_call(periodTotal, totals)
  \/ \E recentCount \in 0..MaxAmount, quarters \in 0..MaxAmount :
       detectFrequencyAnomaly_call(Food, recentCount, quarters)
  \/ \E amount \in AnalyzedAmounts, category \in {Food, Rent, <<>>},
        history \in AnalyzedHistories :
       analyzeTransaction_call(amount, category, history)
  \/ \E amount \in AnalyzedAmounts, history \in AnalyzedHistories :
       analyzeTransaction_call(amount, Null, history)

SpecDetector == Init /\ [][NextDetector]_vars

\* The rule of the amount detectors in exact arithmetic: fewer than 5
\* historical amounts are insufficient data; otherwise the candidate is
\* flagged when |z| > p/q, with severity low up to |z| = 3, medium up to 4
\* and high above, z being measured against the population mean and
\* deviation of the history (0 when the deviation is 0).
AmountRule(amount, history, p, q, type) ==
  IF Len(history) < 5 THEN Result(FALSE, "insufficient_data", "low")
  ELSE IF ZExceeds(amount, history, p, q) THEN Result(TRUE, type, ZSeverity(amount, history))
  ELSE Result(FALSE, "normal", "low")

\* C12: detectAmountAnomaly(amount, history) with the default threshold 2.5
\* returns what the reference rule gives for every input: insufficient_data
\* under 5 historical amounts, else unusual_amount exactly when |z| > 2.5,
\* with severity low for |z| in (2.5, 3], medium for (3, 4] and high above 4;
\* for the history of nine 10s and one 100, amount 10 is not flagged and
\* amount 500 is flagged with at least medium severity.
C12_ReferenceRule ==
  call.op = "detectAmountAnomaly" =>
    /\ call.result = AmountRule(call.amount, call.historicalAmounts, 5, 2, "unusual_amount")
    /\ (call.historicalAmounts = Typical /\ call.amount = 10) => ~call.result.isAnomaly
    /\ (call.historicalAmounts = Typical /\ call.amount = 500) =>
         call.result.isAnomaly /\ call.result.severity \in {"medium", "high"}

\* The amounts of the historical transactions of a call of analyzeTransaction,
\* and those of the candidate's category
CalledAmounts == Numbers([i \in 1..Len(call.history) |-> call.history[i].amount])

CalledCategory == SelectSeq(call.history, LAMBDA t : call.category = t.category)

CalledCategoryAmounts ==
  Numbers([i \in 1..Len(CalledCategory) |-> CalledCategory[i].amount])

\* What each of the three rules gives for the call
AmountFinding == detectAmountAnomaly(NumberOf(call.amount), CalledAmounts, Halves(5))

LargeFinding ==
  IF Len(call.history) >= 10
  THEN detectLargeTransaction(NumberOf(call.amount),
                              percentile(SortAscending(CalledAmounts), NumberOf(90)))
  ELSE Result(FALSE, "insufficient_data", "low")

CategoryFinding ==
  IF call.category # Null /\ call.category # <<>> /\ Len(CalledCategory) >= 5
  THEN [detectAmountAnomaly(NumberOf(call.amount), CalledCategoryAmounts, NumberOf(2))
          EXCEPT !.type = IF @ = "unusual_amount" THEN "unusual_category_amount" ELSE @]
  ELSE Result(FALSE, "insufficient_data", "low")

\* C13: the result of analyzeTransaction is exactly the list of the findings
\* of the rules that fire, among unusual amount (whole history), large
\* transaction (10 amounts or more) and category amount (a category with 5
\* or more historical transactions), in that order; no rule suppresses
\* another, and no non-anomalous result is in the list.
C13_Accumulates ==
  call.op = "analyzeTransaction" =>
    /\ call.result = SelectSeq(<<AmountFinding, LargeFinding, CategoryFinding>>,
                               LAMBDA r : r.isAnomaly)
    /\ \A i \in 1..Len(call.result) :
         /\ call.result[i].isAnomaly
         /\ call.result[i].type \in
              {"unusual_amount", "large_transaction", "unusual_category_amount"}

\* The large-transaction and the category rule fire together, the amount
\* rule does not.
C13_Witness ==
  /\ call.op = "analyzeTransaction"
  /\ Len(call.result) = 2
  /\ call.result[1].type = "large_transaction"
  /\ call.result[2].type = "unusual_category_amount"

(***************************************************************************)
(* The batch scan on its own: SpecBatch registers the account, stores up   *)
(* to MaxWrites transactions and runs batchAnalyze on lists of 9, 10 and   *)
(* 20 transactions whose ids name a stored transaction, none (0) or a      *)
(* transaction that does not exist.                                        *)
(***************************************************************************)

\* The odd transactions of a list carry one id, the even ones another
BatchHistories ==
  {[i \in 1..Len(amounts) |-> [id |-> IF i % 2 = 1 THEN a ELSE b, amount |-> amounts[i]]] :
     a \in 0..(db.seq.transactions + 1), b \in 0..(db.seq.transactions + 1),
     amounts \in BatchAmounts}

NextBatch ==
  \/ \E account \in Accounts : register(account[1], account[2])
  \/ deriveKey_resolved
  \/ \E userId \in UserIds, body \in ForeignBodies : post_transaction(userId, body)
  \/ \E userId \in UserIds, history \in BatchHistories : batchAnalyze(userId, history)

SpecBatch == Init /\ [][NextBatch]_vars

HistoryAmounts(history) == [k \in 1..Len(history) |-> history[k].amount]

\* The places of a list of 10 or more transactions whose amount is more
\* than 2.5 deviations away from the mean of all the amounts, in order
Flagged(history) ==
  IF Len(history) < 10 THEN <<>>
  ELSE SelectSeq([i \in 1..Len(history) |-> i],
                 LAMBDA i : ZExceeds(history[i].amount, HistoryAmounts(history), 5, 2))

\* Those whose amount is more than 2.5 deviations above the mean
FlaggedAbove(history) ==
  SelectSeq(Flagged(history),
            LAMBDA i : ZNum(history[i].amount, HistoryAmounts(history)) > 0)

\* The flagged places before the first one whose transaction_id names no
\* stored transaction
RECURSIVE Persisted(_, _, _)
Persisted(flagged, store, history) ==
  IF flagged = <<>> THEN <<>>
  ELSE IF history[Head(flagged)].id # 0
          /\ TransactionModel_findById(store, history[Head(flagged)].id) = Null
  THEN <<>>
  ELSE <<Head(flagged)>> \o Persisted(Tail(flagged), store, history)

\* The Findings that a step adds to the store are one for each of the places,
\* in order: of type unusual_amount, about that transaction, owned by userId
FindingsFor(places, history, userId, before, after) ==
  /\ SubSeq(after.anomalies, 1, Len(before.anomalies)) = before.anomalies
  /\ Len(after.anomalies) = Len(before.anomalies) + Len(places)
  /\ \A k \in 1..Len(places) :
       /\ after.anomalies[Len(before.anomalies) + k].anomaly_type = "unusual_amount"
       /\ after.anomalies[Len(before.anomalies) + k].transaction_id = history[places[k]].id
       /\ after.anomalies[Len(before.anomalies) + k].user_id = userId
  /\ after.transactions = before.transactions
  /\ after.users = before.users

CategoryHistory == [i \in 1..Len(CalledCategory) |-> CalledCategory[i].amount]

\* C15: analyzeTransaction produces the category finding (type
\* unusual_category_amount) exactly when the candidate has a category, 5 or
\* more historical transactions have that category, and |z| > 2.0 for z
\* measured against the mean and population deviation of that category's
\* amounts only; its severity is low for |z| <= 3, medium for |z| in (3, 4]
\* and high for |z| > 4.
C15_CategoryRule ==
  call.op = "analyzeTransaction" =>
    SelectSeq(call.result, LAMBDA r : r.type = "unusual_category_amount")
      = IF /\ call.category # Null
           /\ call.category # <<>>
           /\ AmountRule(call.amount, CategoryHistory, 2, 1, "unusual_category_amount").isAnomaly
        THEN <<AmountRule(call.amount, CategoryHistory, 2, 1, "unusual_category_amount")>>
        ELSE <<>>

\* The whole amounts of the historical transactions of the call
WholeHistory == [i \in 1..Len(call.history) |-> call.history[i].amount]

\* The k-th smallest of the values, counted with repetitions
KthSmallest(values, k) ==
  CHOOSE v \in Range(values) :
    /\ Cardinality({i \in 1..Len(values) : values[i] < v}) < k
    /\ k <= Cardinality({i \in 1..Len(values) : values[i] <= v})

\* The nearest-rank 90th percentile of 10 or more values: the value of rank
\* ceil(0.9 * n)
NearestRank90(values) == KthSmallest(values, (9 * Len(values) + 9) \div 10)

C17_NearestRank ==
  call.op = "percentile" =>
    /\ call.result =
         IF Len(call.sortedValues) = 0 THEN Zero
         ELSE IF call.percentile = 0 THEN NumberOf(call.sortedValues[1])
         ELSE NumberOf(call.sortedValues[
                (call.percentile * Len(call.sortedValues) + 99) \div 100])
    /\ (call.sortedValues = [i \in 1..10 |-> 10 * i] /\ call.percentile = 90) =>
         call.result = NumberOf(90)

\* C18: detectFrequencyAnomaly returns the non-anomalous new_category
\* result when historicalAverage is 0; for a positive historicalAverage it
\* fires (type unusual_frequency) exactly when recentCount /
\* historicalAverage > 2.0, with severity low for a ratio up to 3, medium up
\* to 4 and high above 4; for Food, recentCount 5 and historicalAverage 2
\* it fires with severity low.  (The ratio is 4 * recentCount / quarters.)
C18_FrequencyRule ==
  call.op = "detectFrequencyAnomaly" =>
    /\ call.result =
         IF call.quarters = 0 THEN Result(FALSE, "new_category", "low")
         ELSE IF 4 * call.recentCount > 2 * call.quarters
         THEN Result(TRUE, "unusual_frequency",
                     IF 4 * call.recentCount > 4 * call.quarters THEN "high"
                     ELSE IF 4 * call.recentCount > 3 * call.quarters THEN "medium"
                     ELSE "low")
         ELSE Result(FALSE, "normal", "low")
    /\ (call.recentCount = 5 /\ call.quarters = 8) =>
         call.result = Result(TRUE, "unusual_frequency", "low")

\* Food with recentCount 5 and historicalAverage 2 has been judged.
C18_Witness ==
  /\ call.op = "detectFrequencyAnomaly"
  /\ call.category = Food
  /\ call.recentCount = 5
  /\ call.quarters = 8
  /\ call.result.isAnomaly

RECURSIVE SumSquares(_)
SumSquares(values) ==
  IF values = <<>> THEN 0 ELSE Head(values) * Head(values) + SumSquares(Tail(values))

\* n * n times the population variance of whole values: n * sum(x^2) - sum(x)^2
ScaledVariance(values) ==
  Len(values) * SumSquares(values) - Sum(values) * Sum(values)

BigDistance(a, b) == IF BigCmp(a, b) >= 0 THEN BigSub(a, b) ELSE BigSub(b, a)

\* a and b differ by at most b / 2^40
BigNear(a, b) == BigCmp(BigShl(BigDistance(a, b), 40), b) <= 0

\* The square of the Number r is the population variance of the whole
\* values, to a relative error of 2^-40 (both sides scaled by n * n and by
\* the power of two that makes r a whole number)
PopulationDeviation(r, values) ==
  /\ r.e <= 0
  /\ BigNear(BigMul(BigMul(r.m, r.m), BigOfInt(Len(values) * Len(values))),
             BigShl(BigOfInt(ScaledVariance(values)), -2 * r.e))

\* C20: mean([]) = 0, standardDeviation([]) = 0, and zScore(x, m, 0) = 0
\* for every x and m; standardDeviation is the population deviation: its
\* square is the sum of the squared deviations divided by n (not by n - 1),
\* exactly where the arithmetic is exact and to rounding error elsewhere.
C20_Statistics ==
  /\ (call.op = "mean" /\ call.values = <<>>) => call.result = Zero
  /\ call.op = "standardDeviation" =>
       /\ call.values = <<>> => call.result = Zero
       /\ call.values # <<>> => PopulationDeviation(call.result, call.values)
       /\ call.values = <<1, 3>> => call.result = NumberOf(1)
       /\ call.values = Typical => call.result = NumberOf(27)
  /\ (call.op = "zScore" /\ call.stdDev = 0) => call.result = Zero

\* The deviation of three values whose mean no double holds exactly has been
\* computed and is not zero.
C20_Witness ==
  /\ call.op = "standardDeviation"
  /\ Len(call.values) = 3
  /\ Sum(call.values) % 3 # 0
  /\ call.result # Zero
  /\ PopulationDeviation(call.result, call.values)

\* C21: the decrypted list that fetchTransactions installs has the same
\* length and the same record order as the list returned by the server,
\* whatever the order in which the individual decryptions complete.
C21_OrderPreserved ==
  (call.op = "fetchTransactions" /\ call.settled /\ call.status = 200
     /\ \A i \in 1..Len(call.rows) : DecryptRow(call.rows[i], call.key).ok)
  => /\ Len(transactions) = Len(call.rows)
     /\ \A i \in 1..Len(call.rows) :
          transactions[i] = DecryptRow(call.rows[i], call.key).val

\* A batch of two records whose second decryption completed first has been
\* installed.
C21_Witness ==
  /\ call.op = "fetchTransactions" /\ call.settled
  /\ Len(call.rows) = 2
  /\ call.order = <<2, 1>>
  /\ call.rows[1].id # call.rows[2].id
  /\ Len(transactions) = 2
  /\ transactions[1].id = call.rows[1].id

\* C22: getKeyForUser(u, password) fails with the salt-not-found error
\* exactly when no salt is persisted for u (u was never initialized on this
\* device, or its salt was removed by clearUserData(u)); on that failure it
\* derives no key, and it leaves the salt store unchanged.
C22_SaltNotFound ==
  [][call'.op = "getKeyForUser" =>
       /\ (~call'.result.ok) <=> (<<"salt_", call'.userId>> \notin DOMAIN localStorage)
       /\ (~call'.result.ok) <=> (registeredKey[call'.userId] = Null)
       /\ (~call'.result.ok) =>
            /\ SaltStorage_getSalt(localStorage, call'.userId) = Null
            /\ call'.result = Fail
       /\ localStorage' = localStorage]_vars

\* getKeyForUser has failed on a device where a salt had been generated and
\* every salt has been removed.
C22_Witness ==
  /\ call.op = "getKeyForUser"
  /\ ~call.result.ok
  /\ rng > 0
  /\ localStorage = <<>>

\* The IVs drawn before the draw number r, as they travel (Base64).
EarlierIvs(r) == {ab2base64(RandomValues(IV_LENGTH, q)) : q \in 0..(r - 1)}

\* C23: every encryptData call generates its own IV: in every create and
\* update of the hook the record is encrypted under an IV that no earlier
\* draw produced and that no stored record carries (the record under
\* update included), and the amount is encrypted under another IV, which is
\* not the record's, no earlier draw's and no stored record's (a ciphertext
\* opens under the IV it was sealed with and under no other).
C23_FreshIv ==
  [][call'.op \in {"createTransaction", "updateTransaction"} =>
       /\ wire'[1].body.iv \notin EarlierIvs(rng)
       /\ \A i \in 1..Len(db.transactions) : db.transactions[i].iv # wire'[1].body.iv
       /\ decryptData(wire'[1].body.encrypted_data, wire'[1].body.iv, encryptionKey).ok
       /\ ~decryptData(wire'[1].body.amount_encrypted, wire'[1].body.iv, encryptionKey).ok
       /\ \A iv \in EarlierIvs(rng) \cup {db.transactions[i].iv : i \in 1..Len(db.transactions)} :
            ~decryptData(wire'[1].body.amount_encrypted, iv, encryptionKey).ok
       /\ \E iv \in EarlierIvs(rng') \ EarlierIvs(rng) :
            decryptData(wire'[1].body.amount_encrypted, iv, encryptionKey).ok]_vars

\* An update has been stored: the record carries the IV of the request,
\* drawn after the IVs of its creation.
C23_Witness ==
  /\ call.op = "updateTransaction"
  /\ call.status = 200
  /\ rng >= 5
  /\ \E i \in 1..Len(db.transactions) :
       /\ db.transactions[i].id = call.id
       /\ db.transactions[i].iv = wire[1].body.iv
       /\ db.transactions[i].iv \notin EarlierIvs(rng - 2)

\* C24: encryptTransaction given a transaction with amount <= 0 or an empty
\* description signals a precondition violation and produces no ciphertext.
C24_FailsFast ==
  (call.op = "encryptTransaction"
     /\ (call.transaction.amount <= 0 \/ call.transaction.description = <<>>))
  => call.encrypted = Fail

\* C25: whenever no user is logged in (user is null), encryptionKey is null,
\* in every reachable state, also when logout runs while a login or
\* register call is suspended at the key derivation and that call resumes
\* afterwards.
C25_NoKeyWithoutUser == user = Null => encryptionKey = Null

\* The auth_token entry of a localStorage (Null when there is none).
StoredToken(ls) == IF <<"auth_token">> \in DOMAIN ls THEN ls[<<"auth_token">>] ELSE Null

\* C26: if login() rejects (the server refuses the credentials, or the key
\* derivation fails because the salt is missing), then user, the stored
\* auth_token and encryptionKey are what they were before the call; and a
\* state with user set and encryptionKey null is not reached once login or
\* the mount-time session restore has settled.
C26_AllOrNothing ==
  [][/\ (call'.op = "login" /\ (call'.status # 200 \/ pendingAuth' = Null))
          => /\ user' = user
             /\ encryptionKey' = encryptionKey
             /\ StoredToken(localStorage') = StoredToken(localStorage)
     /\ (call'.op \in {"login", "mount"} /\ pendingAuth' = Null /\ user' # Null)
          => encryptionKey' # Null]_vars

\* The ids of the stored transactions.
StoredIds(database) == {database.transactions[i].id : i \in 1..Len(database.transactions)}

\* C27: a deleted transaction does not reappear: an id that the store no
\* longer holds (ids are never given twice, so it is the id of a deleted
\* transaction) does not enter the hook's transactions list, also when a
\* fetchTransactions issued before the delete resolves after it.
C27_DeletedStaysAbsent ==
  [][\A id \in Listed' \ Listed : id \in StoredIds(db')]_vars

(***************************************************************************)
(* The API alone, with two users: every request is made with the token of  *)
(* user userId (authMiddleware has set req.user), and the browser of the   *)
(* model takes no part.                                                    *)
(***************************************************************************)
Elsewhere ==
  /\ wire' = <<>>
  /\ UNCHANGED <<localStorage, user, encryptionKey, authIsLoading, pendingAuth,
                 transactions, isLoading, error, inflight, rng, registeredKey>>

\* Bodies of POST /transactions and PUT /transactions/:id
ServerBodies ==
  ForeignBodies
    \cup {TransactionBody(CHOOSE t \in TransactionInputs : t.amount = 250, ForeignKey, 102)}

\* One request: the handler's response is recorded whole.
Requested(op, userId, id, response) ==
  /\ db' = response.db
  /\ call' = [op |-> op, userId |-> userId, id |-> id,
              status |-> response.status, body |-> response.body]
  /\ Elsewhere

\* POST /auth/register
post_register(email, password) ==
  Requested("POST /auth/register", 0, 0,
            srv_register(db, [email |-> email, password |-> password]))

\* POST /transactions
create_transaction(userId, body) ==
  /\ db.clock < MaxWrites
  /\ Requested("POST /transactions", userId, 0, srv_createTransaction(db, userId, body))

\* GET /transactions
get_transactions(userId) ==
  Requested("GET /transactions", userId, 0, srv_getTransactions(db, userId))

\* GET /transactions/:id
get_transaction(userId, id) ==
  Requested("GET /transactions/:id", userId, id, srv_getTransaction(db, userId, id))

\* PUT /transactions/:id
put_transaction(userId, id, body) ==
  /\ db.clock < MaxWrites
  /\ Requested("PUT /transactions/:id", userId, id,
               srv_updateTransaction(db, userId, id, body))

\* DELETE /transactions/:id
delete_transaction(userId, id) ==
  Requested("DELETE /transactions/:id", userId, id, srv_deleteTransaction(db, userId, id))

\* GET /anomalies (limit 50)
get_anomalies(userId) ==
  Requested("GET /anomalies", userId, 0, srv_getAnomalies(db, userId, 50))

\* GET /anomalies/unacknowledged
get_unacknowledged(userId) ==
  Requested("GET /anomalies/unacknowledged", userId, 0,
            srv_getUnacknowledgedAnomalies(db, userId))

\* POST /anomalies
create_anomaly(userId, body) ==
  /\ db.clock < MaxWrites
  /\ Requested("POST /anomalies", userId, 0, srv_createAnomaly(db, userId, body))

\* PATCH /anomalies/:id/acknowledge
acknowledge_anomaly(userId, id) ==
  Requested("PATCH /anomalies/:id/acknowledge", userId, id,
            srv_acknowledgeAnomaly(db, userId, id))

NextServer ==
  \/ \E email \in Emails : post_register(email, <<112, 97, 115, 115, 119, 111, 114, 100>>)
  \/ \E userId \in UserIds, body \in ServerBodies : create_transaction(userId, body)
  \/ \E userId \in UserIds : get_transactions(userId)
  \/ \E userId \in UserIds, id \in 1..(db.seq.transactions + 1) : get_transaction(userId, id)
  \/ \E userId \in UserIds, id \in 1..(db.seq.transactions + 1), body \in ServerBodies :
       put_transaction(userId, id, body)
  \/ \E userId \in UserIds, id \in 1..(db.seq.transactions + 1) :
       delete_transaction(userId, id)
  \/ \E userId \in UserIds : get_anomalies(userId)
  \/ \E userId \in UserIds : get_unacknowledged(userId)
  \/ \E userId \in UserIds, body \in AnomalyBodies : create_anomaly(userId, body)
  \/ \E userId \in UserIds, id \in 1..(db.seq.anomalies + 1) : acknowledge_anomaly(userId, id)

SpecServer == Init /\ [][NextServer]_vars

\* The rows that belong to other users than userId.
Others(rows, userId) == SelectSeq(rows, LAMBDA r : r.user_id # userId)

\* A request about the record row of the store (Null when the id names
\* none) by a user who does not own it fails, 404 for no record and 403
\* for a record of another user, and changes nothing.
Refused(row, userId, status, before, after) ==
  /\ row = Null => (status = 404 /\ after = before)
  /\ (row # Null /\ row.user_id # userId) => (status = 403 /\ after = before)

\* What the request of a step answers holds records of the caller only.
OwnRecordsOnly(op, userId, status, body) ==
  /\ op \in {"GET /transactions", "GET /anomalies", "GET /anomalies/unacknowledged"}
       => \A i \in 1..Len(body) : body[i].user_id = userId
  /\ (op = "GET /transactions/:id" /\ status = 200) => body.user_id = userId

\* C28: getTransaction, updateTransaction, deleteTransaction and
\* acknowledgeAnomaly invoked by a user who is not the record's owner fail
\* with 403 (404 when the id does not exist) and leave the store unchanged;
\* the list operations return only records of the caller; and no request
\* of a user changes or reveals a transaction or finding of another user.
C28_OwnershipIsolation ==
  [][call'.userId # 0 =>
       /\ call'.op \in {"GET /transactions/:id", "PUT /transactions/:id",
                        "DELETE /transactions/:id"}
            => Refused(TransactionModel_findById(db, call'.id), call'.userId,
                       call'.status, db, db')
       /\ call'.op = "PATCH /anomalies/:id/acknowledge"
            => Refused(AnomalyModel_findById(db, call'.id), call'.userId,
                       call'.status, db, db')
       /\ OwnRecordsOnly(call'.op, call'.userId, call'.status, call'.body)
       /\ Others(db'.transactions, call'.userId) = Others(db.transactions, call'.userId)
       /\ Others(db'.anomalies, call'.userId) = Others(db.anomalies, call'.userId)]_vars

\* C29: every persisted Finding whose transaction_id is not null (0 here)
\* references a stored transaction owned by the user of the Finding.
C29_FindingOnOwnTransaction ==
  \A i \in 1..Len(db.anomalies) :
    db.anomalies[i].transaction_id # 0 =>
      \E j \in 1..Len(db.transactions) :
        /\ db.transactions[j].id = db.anomalies[i].transaction_id
        /\ db.transactions[j].user_id = db.anomalies[i].user_id

\* C30: in batchAnalyze every transaction is part of the population that
\* its z-score is measured against, so |z| <= sqrt(n - 1) for n
\* transactions: a scan of exactly 10 transactions creates Findings of
\* severity low only, a Finding of severity medium needs at least 11
\* transactions and one of severity high at least 18.
C30_SeverityBound ==
  [][call'.op = "batchAnalyze" =>
       \A k \in (Len(db.anomalies) + 1)..Len(db'.anomalies) :
         /\ Len(call'.history) = 10 => db'.anomalies[k].severity = "low"
         /\ db'.anomalies[k].severity = "medium" => Len(call'.history) >= 11
         /\ db'.anomalies[k].severity = "high" => Len(call'.history) >= 18]_vars

=============================================================================
